---- MODULE Spec2Model ----
(***************************************************************************)
(* Model of the orchestration engine: the ToolRegistry                     *)
(* (src/src/tools/registry.js) and the Agent Orchestrator                  *)
(* (src/unnamed/part_004) with its socket entry point                      *)
(* (src/unnamed/part_005).                                                 *)
(***************************************************************************)
EXTENDS Integers, Sequences, FiniteSets, TLC

(***************************************************************************)
(* Generic helpers for JavaScript Map / Set values.                        *)
(***************************************************************************)
\* Map.set(k, v)
MapSet(m, k, v) == [x \in (DOMAIN m) \cup {k} |-> IF x = k THEN v ELSE m[x]]

\* Map.delete(k)
MapDelete(m, k) == [x \in (DOMAIN m) \ {k} |-> m[x]]

EmptyMap == [x \in {} |-> x]

(***************************************************************************)
(* Values of tool definitions.                                             *)
(***************************************************************************)
\* a field that is absent from a definition (undefined)
Absent == "<absent>"

\* an array entry that is not a string (e.g. the number 42)
NotAString == "<42>"

\* String.prototype.toLowerCase over the strings of the model
toLowerCase(s) ==
  CASE s = "Alpha"  -> "alpha"
    [] s = "Beta"   -> "beta"
    [] s = "Gamma"  -> "gamma"
    [] s = "Search" -> "search"
    [] s = "Find"   -> "find"
    [] s = "Finder" -> "finder"
    [] OTHER        -> s

\* the ids a definition may carry and the ids uuidv4() hands out
GivenIds == {"t1", "t2"}

MaxUuid == 1

UuidIds == {"u1", "u2", "u3"}

uuidv4(n) == CASE n = 0 -> "u1" [] n = 1 -> "u2" [] OTHER -> "u3"

ToolIds == GivenIds \cup UuidIds

\* a definition; inputTypes and outputTypes are empty unless given (an
\* absent array and an empty one include no type), and so is the description
MkDef(id, name, category, caps, kws, execute) ==
  [id |-> id, name |-> name, category |-> category,
   capabilities |-> caps, keywords |-> kws, execute |-> execute,
   inputTypes |-> <<>>, outputTypes |-> <<>>, description |-> Absent]

\* the definitions handed to registerTool
DefAlpha ==
  [MkDef("t1", "Alpha", "c1", <<"Search">>, <<"find">>, TRUE)
     EXCEPT !.inputTypes = <<"text">>, !.outputTypes = <<"json">>,
            !.description = "Finder"]

\* another id, the same name in another letter case
DefAlphaLower == MkDef("t2", "alpha", "c1", <<"search">>, <<>>, TRUE)

\* the id of DefAlpha with another name, category, capabilities and keywords
DefBeta == MkDef("t1", "Beta", "c2", <<>>, <<"Find">>, TRUE)

\* no id: uuidv4() assigns one
DefNoId == MkDef(Absent, "Beta", Absent, <<"Search">>, <<"find">>, TRUE)

\* a capability entry that is not a string
DefMalformed == MkDef("t2", "Gamma", "c1", <<"Search", NotAString>>, <<"find">>, TRUE)

\* required fields missing
DefNoName == MkDef("t1", Absent, "c1", <<"Search">>, <<"find">>, TRUE)

DefNoExecute == MkDef("t2", "Alpha", "c1", <<"Search">>, <<"find">>, FALSE)

ToolDefs ==
  {DefAlpha, DefAlphaLower, DefBeta, DefNoId, DefMalformed, DefNoName, DefNoExecute}

(***************************************************************************)
(* The registry state.                                                     *)
(***************************************************************************)
VARIABLES
  tools,          \* the primary Map (the ToolRegistry itself): id -> tool
  categories,     \* Map category -> Set of ids
  capabilities,   \* Set of capability names
  metadataIndex,  \* Map split by key prefix: name -> id, capability/keyword -> Set of ids
  toolOrder,      \* insertion order of the primary Map's keys
  usageStats,     \* Map id -> statistics record
  uuidCount,      \* number of ids uuidv4() has handed out
  lastCall,       \* the last registry call and what it returned
  calls           \* number of registry calls made

regVars == <<tools, toolOrder, categories, capabilities, metadataIndex, usageStats, uuidCount, lastCall, calls>>

(***************************************************************************)
(* The orchestrator state.                                                 *)
(***************************************************************************)
VARIABLES
  activeContexts, \* Map sessionId -> Context object (a reference into contexts)
  contexts,       \* the Context objects ever created, by reference
  persisted,      \* the sessions the persistence collaborator holds
  queries,        \* per socket, its processQuery invocation and where it stands
  received,       \* number of agent:query frames received
  now,            \* Date.now(), in units of the cleanup interval (15 minutes)
  cleanedCount,   \* what the last cleanupIdleContexts call returned
  frames          \* per socket, the frames emitted on it since its last agent:query

orchVars == <<activeContexts, contexts, persisted, queries, received, now, cleanedCount, frames>>

\* the executor state: the plan in execution (plan[s] is the set of
\* dependencies of step s), the state of each StepOutcome, the retries used
\* by each step and whether the cancellation signal was given
VARIABLES plan, outcomes, attempts, cancelled

execVars == <<plan, outcomes, attempts, cancelled>>

\* the state of the database connections: process.env, the connection
\* objects, connectionStatus, retryConfig.currentRetries, the running
\* invocation of each connect function, its attempts, the timers of the
\* reconnect handlers, and the calls of connectDatabases and closeDatabases
VARIABLES env, connections, connectionStatus, currentRetries, connectCalls,
          connectAttempts, reconnectTimers, startup, startups, losses, shutdown

connVars == <<env, connections, connectionStatus, currentRetries, connectCalls,
              connectAttempts, reconnectTimers, startup, startups, losses, shutdown>>

\* the state of API key authentication: the collections apiKeys and users,
\* the module's apiKeyCache, Date.now(), the request in the middleware and the
\* number of requests handled
VARIABLES apiKeyDocs, userDocs, apiKeyCache, authNow, request, requests

authVars == <<apiKeyDocs, userDocs, apiKeyCache, authNow, request, requests>>

\* the state of the client's AgentProvider: its useState values, the
\* history loads and the sendQuery calls in flight
VARIABLES sessions, currentSession, messages, isProcessing, clientError, sessionsLoading,
          loads, sends

clientVars == <<sessions, currentSession, messages, isProcessing, clientError, sessionsLoading,
                loads, sends>>

vars == <<regVars, orchVars, execVars, connVars, authVars, clientVars>>

\* the registry as one value
Registry(t, o, c, cp, mi, us) ==
  [tools |-> t, toolOrder |-> o, categories |-> c, capabilities |-> cp,
   metadataIndex |-> mi, usageStats |-> us]

CurrentRegistry ==
  Registry(tools, toolOrder, categories, capabilities, metadataIndex, usageStats)

EmptyIndex == [name |-> EmptyMap, capability |-> EmptyMap, keyword |-> EmptyMap]

EmptyRegistry == Registry(EmptyMap, <<>>, EmptyMap, {}, EmptyIndex, EmptyMap)

(***************************************************************************)
(* registerTool                                                            *)
(***************************************************************************)
\* validateToolDefinition (./validator.js): the required fields are name and
\* the execute handle; every other field is optional.  It sees the definition
\* alone, never the registry.
validateToolDefinition(def) == def.name # Absent /\ def.execute

InitialStats ==
  [successCount |-> 0, failureCount |-> 0, averageExecutionTime |-> 0,
   totalExecutions |-> 0, lastUsed |-> Absent]

\* the outcome of a registry call: the registry it leaves, what it returned
\* ("true", "false", a count, or "throws") and the uuids it consumed
Outcome(r, ret, used) == [reg |-> r, ret |-> ret, uuids |-> used]

\* add toolId to the Set stored under key in one part of metadataIndex
IndexAdd(r, kind, key, toolId) ==
  LET idx == r.metadataIndex[kind]
      cur == IF key \in DOMAIN idx THEN idx[key] ELSE {}
  IN [r EXCEPT !.metadataIndex[kind] = MapSet(idx, key, cur \cup {toolId})]

\* the loop over validatedTool.capabilities: each entry is added to the
\* capabilities Set, then lower-cased (which throws on a non-string) and indexed
RECURSIVE IndexCapabilities(_, _, _, _)
IndexCapabilities(r, entries, i, toolId) ==
  IF i > Len(entries) THEN [reg |-> r, threw |-> FALSE]
  ELSE LET r1 == [r EXCEPT !.capabilities = @ \cup {entries[i]}]
       IN IF entries[i] = NotAString THEN [reg |-> r1, threw |-> TRUE]
          ELSE IndexCapabilities(IndexAdd(r1, "capability", toLowerCase(entries[i]), toolId),
                                 entries, i + 1, toolId)

\* the loop over validatedTool.keywords
RECURSIVE IndexKeywords(_, _, _, _)
IndexKeywords(r, entries, i, toolId) ==
  IF i > Len(entries) THEN [reg |-> r, threw |-> FALSE]
  ELSE IF entries[i] = NotAString THEN [reg |-> r, threw |-> TRUE]
       ELSE IndexKeywords(IndexAdd(r, "keyword", toLowerCase(entries[i]), toolId),
                          entries, i + 1, toolId)

\* this.set(toolId, validatedTool) and the name index
StoreTool(r, toolId, def) ==
  LET r1 == [r EXCEPT !.tools = MapSet(@, toolId, def),
                       !.toolOrder = IF toolId \in DOMAIN r.tools THEN @ ELSE Append(@, toolId)]
  IN [r1 EXCEPT !.metadataIndex.name = MapSet(@, toLowerCase(def.name), toolId)]

\* the category index
IndexCategory(r, toolId, def) ==
  IF def.category = Absent THEN r
  ELSE LET cur == IF def.category \in DOMAIN r.categories
                  THEN r.categories[def.category] ELSE {}
       IN [r EXCEPT !.categories = MapSet(@, def.category, cur \cup {toolId})]

\* this.usageStats.set(toolId, {...zeros...})
InitUsageStats(r, toolId) == [r EXCEPT !.usageStats = MapSet(@, toolId, InitialStats)]

\* registerTool(toolDefinition) on registry r, n uuids handed out so far
registerTool(r, def, n) ==
  IF ~validateToolDefinition(def) THEN Outcome(r, "false", 0)
  ELSE LET toolId == IF def.id # Absent THEN def.id ELSE uuidv4(n)
           used   == IF def.id # Absent THEN 0 ELSE 1
           r1     == IndexCategory(StoreTool(r, toolId, def), toolId, def)
           caps   == IndexCapabilities(r1, def.capabilities, 1, toolId)
           kws    == IndexKeywords(caps.reg, def.keywords, 1, toolId)
       IN IF caps.threw THEN Outcome(caps.reg, "false", used)
          ELSE IF kws.threw THEN Outcome(kws.reg, "false", used)
          ELSE Outcome(InitUsageStats(kws.reg, toolId), "true", used)

(***************************************************************************)
(* unregisterTool                                                          *)
(***************************************************************************)
\* remove toolId from the Set under key in one part of metadataIndex; the
\* entry is dropped when its Set becomes empty
IndexRemove(r, kind, key, toolId) ==
  LET idx == r.metadataIndex[kind]
  IN IF key \notin DOMAIN idx THEN r
     ELSE IF idx[key] \ {toolId} = {}
          THEN [r EXCEPT !.metadataIndex[kind] = MapDelete(idx, key)]
          ELSE [r EXCEPT !.metadataIndex[kind] = MapSet(idx, key, idx[key] \ {toolId})]

\* the loop over tool.capabilities / tool.keywords of unregisterTool;
\* lower-casing a non-string entry throws
RECURSIVE UnindexEntries(_, _, _, _, _)
UnindexEntries(r, kind, entries, i, toolId) ==
  IF i > Len(entries) THEN [reg |-> r, threw |-> FALSE]
  ELSE IF entries[i] = NotAString THEN [reg |-> r, threw |-> TRUE]
       ELSE UnindexEntries(IndexRemove(r, kind, toLowerCase(entries[i]), toolId),
                           kind, entries, i + 1, toolId)

\* this.delete(toolId) and the name index entry of the tool's name
RemoveTool(r, toolId) ==
  LET tool == r.tools[toolId]
  IN [r EXCEPT !.tools = MapDelete(@, toolId),
               !.toolOrder = SelectSeq(@, LAMBDA x : x # toolId),
               !.metadataIndex.name = MapDelete(@, toLowerCase(tool.name))]

\* the category index
UnindexCategory(r, toolId, tool) ==
  IF tool.category = Absent \/ tool.category \notin DOMAIN r.categories THEN r
  ELSE IF r.categories[tool.category] \ {toolId} = {}
       THEN [r EXCEPT !.categories = MapDelete(@, tool.category)]
       ELSE [r EXCEPT !.categories = MapSet(@, tool.category, @[tool.category] \ {toolId})]

\* the id an identifier (an id or a name) resolves to, Absent when unknown
ResolveIdentifier(r, toolIdentifier) ==
  IF toolIdentifier \in DOMAIN r.tools THEN toolIdentifier
  ELSE IF toLowerCase(toolIdentifier) \in DOMAIN r.metadataIndex.name
       THEN r.metadataIndex.name[toLowerCase(toolIdentifier)]
       ELSE Absent

unregisterTool(r, toolIdentifier) ==
  LET toolId == ResolveIdentifier(r, toolIdentifier)
  IN IF toolId = Absent \/ toolId \notin DOMAIN r.tools THEN Outcome(r, "false", 0)
     ELSE LET tool == r.tools[toolId]
              r1   == UnindexCategory(RemoveTool(r, toolId), toolId, tool)
              caps == UnindexEntries(r1, "capability", tool.capabilities, 1, toolId)
              kws  == UnindexEntries(caps.reg, "keyword", tool.keywords, 1, toolId)
          IN IF caps.threw THEN Outcome(caps.reg, "throws", 0)
             ELSE IF kws.threw THEN Outcome(kws.reg, "throws", 0)
             ELSE Outcome([kws.reg EXCEPT !.usageStats = MapDelete(@, toolId)], "true", 0)

(***************************************************************************)
(* findTools                                                               *)
(***************************************************************************)
\* criteria = {}: no criterion is supplied (no keyword is listed)
NoCriteria ==
  [category |-> Absent, capability |-> Absent, keywords |-> <<>>,
   inputType |-> Absent, outputType |-> Absent]

\* [...toolIds].filter(id => set.has(id))
FilterIds(ids, set) == SelectSeq(ids, LAMBDA id : id \in set)

\* a variant of the start of findTools that takes the ids from the name index
NameIndexedIds(r) ==
  SelectSeq(r.toolOrder,
            LAMBDA id : \E key \in DOMAIN r.metadataIndex.name : r.metadataIndex.name[key] = id)

\* new Set(this.keys()): the keys of the primary map, in insertion order
Keys(r) == r.toolOrder

\* array.includes(type)
Includes(array, type) == \E i \in DOMAIN array : array[i] = type

\* the loop of findTools over criteria.keywords: a keyword that has an index
\* entry filters, a keyword without one is passed over
RECURSIVE FilterKeywords(_, _, _, _)
FilterKeywords(r, ids, keywords, i) ==
  IF i > Len(keywords) THEN ids
  ELSE LET key == toLowerCase(keywords[i])
       IN IF key \in DOMAIN r.metadataIndex.keyword
          THEN FilterKeywords(r, FilterIds(ids, r.metadataIndex.keyword[key]), keywords, i + 1)
          ELSE FilterKeywords(r, ids, keywords, i + 1)

\* the filters by inputType and outputType, on the stored tools
FilterTypes(r, ids, criteria) ==
  LET byInput  == IF criteria.inputType = Absent THEN ids
                  ELSE SelectSeq(ids, LAMBDA id :
                                   Includes(r.tools[id].inputTypes, criteria.inputType))
  IN IF criteria.outputType = Absent THEN byInput
     ELSE SelectSeq(byInput, LAMBDA id :
                      Includes(r.tools[id].outputTypes, criteria.outputType))

\* findTools(criteria): the matching tools, given by their ids in the order
\* of the primary map
findTools(r, criteria) ==
  LET capKey == toLowerCase(criteria.capability)
  IN IF criteria.category # Absent /\ criteria.category \notin DOMAIN r.categories
     THEN <<>>
     ELSE IF criteria.capability # Absent /\ capKey \notin DOMAIN r.metadataIndex.capability
     THEN <<>>
     ELSE LET byCategory   == IF criteria.category = Absent THEN Keys(r)
                              ELSE FilterIds(Keys(r), r.categories[criteria.category])
              byCapability == IF criteria.capability = Absent THEN byCategory
                              ELSE FilterIds(byCategory, r.metadataIndex.capability[capKey])
              byKeywords   == FilterKeywords(r, byCapability, criteria.keywords, 1)
          IN FilterTypes(r, byKeywords, criteria)

(***************************************************************************)
(* recordToolUsage                                                         *)
(***************************************************************************)
\* the one execution time (ms) the model reports; with a single value the
\* running average (avg * n + t) / (n + 1) is exact in integers
ExecTimeMs == 10

\* the stats arguments: the success flag, and whether executionTime is a
\* number (numeric is typeof stats.executionTime === 'number')
UsageArgs == [success : BOOLEAN, numeric : BOOLEAN, executionTime : {ExecTimeMs}]

UpdateStats(cur, stats) ==
  LET counted == IF stats.success
                 THEN [cur EXCEPT !.successCount = @ + 1]
                 ELSE [cur EXCEPT !.failureCount = @ + 1]
      timed   == IF stats.numeric
                 THEN [counted EXCEPT
                         !.totalExecutions = @ + 1,
                         !.averageExecutionTime =
                            (cur.averageExecutionTime * cur.totalExecutions
                               + stats.executionTime) \div (cur.totalExecutions + 1)]
                 ELSE counted
  IN [timed EXCEPT !.lastUsed = "now"]

recordToolUsage(r, toolId, stats) ==
  IF toolId \notin DOMAIN r.usageStats THEN Outcome(r, "false", 0)
  ELSE Outcome([r EXCEPT !.usageStats[toolId] = UpdateStats(@, stats)], "true", 0)

(***************************************************************************)
(* getAllCapabilities                                                      *)
(***************************************************************************)
\* [...this.capabilities]: the entries of the capability set
getAllCapabilities(r) == r.capabilities

(***************************************************************************)
(* getToolRecommendations                                                  *)
(***************************************************************************)
\* the query texts handed to getToolRecommendations
Queries == {"find alpha", "alpha beta", "finder"}

\* String.prototype.includes over the strings of the model: the names,
\* keywords and descriptions that are substrings of a query text
includes(text, s) ==
  CASE text = "find alpha" -> s \in {"find", "alpha", "fin", "ind"}
    [] text = "alpha beta" -> s \in {"alpha", "beta"}
    [] text = "finder"     -> s \in {"find", "finder", "fin", "ind", "nde", "der"}
    [] OTHER               -> FALSE

\* a score is a fraction num / den (den > 0): the products of the code are
\* exact in it
Fraction(num, den) == [num |-> num, den |-> den]

\* b[1] - a[1] < 0, b[1] - a[1] = 0
Less(x, y) == x.num * y.den < y.num * x.den

Same(x, y) == x.num * y.den = y.num * x.den

\* the loop over tool.keywords: 10 per keyword the query includes
RECURSIVE KeywordScore(_, _, _)
KeywordScore(queryLower, keywords, i) ==
  IF i > Len(keywords) THEN 0
  ELSE (IF includes(queryLower, toLowerCase(keywords[i])) THEN 10 ELSE 0)
         + KeywordScore(queryLower, keywords, i + 1)

\* the score before the adjustment by past performance
MatchScore(tool, queryLower) ==
  KeywordScore(queryLower, tool.keywords, 1)
    + (IF includes(queryLower, toLowerCase(tool.name)) THEN 5 ELSE 0)
    + (IF tool.description # Absent /\ includes(queryLower, toLowerCase(tool.description))
       THEN 3 ELSE 0)

\* score *= 0.5 + 0.5 * successRate, for a tool that has statistics and was
\* used; the score is left as it is otherwise
Score(r, id, query) ==
  LET base == MatchScore(r.tools[id], toLowerCase(query))
  IN IF id \in DOMAIN r.usageStats
        /\ r.usageStats[id].successCount + r.usageStats[id].failureCount > 0
     THEN LET stats     == r.usageStats[id]
              totalUses == stats.successCount + stats.failureCount
          IN Fraction(base * (totalUses + stats.successCount), 2 * totalUses)
     ELSE Fraction(base, 1)

\* matchScores: the ids with a score above 0, in the order of the primary map
MatchScores(r, query) ==
  SelectSeq(r.toolOrder, LAMBDA id : Score(r, id, query).num > 0)

\* put id into a sequence sorted by descending score, behind the ids whose
\* score is not smaller (Array.prototype.sort is stable)
RECURSIVE InsertByScore(_, _, _, _)
InsertByScore(r, query, sorted, id) ==
  IF sorted = <<>> THEN <<id>>
  ELSE IF Less(Score(r, Head(sorted), query), Score(r, id, query))
       THEN <<id>> \o sorted
       ELSE <<Head(sorted)>> \o InsertByScore(r, query, Tail(sorted), id)

\* a variant of the sort that leaves the entries in the order of the map
Unsorted(r, query, ids, i, sorted) == ids

\* [...matchScores.entries()].sort((a, b) => b[1] - a[1])
RECURSIVE SortByScore(_, _, _, _, _)
SortByScore(r, query, ids, i, sorted) ==
  IF i > Len(ids) THEN sorted
  ELSE SortByScore(r, query, ids, i + 1, InsertByScore(r, query, sorted, ids[i]))

\* getToolRecommendations(query): the recommended tools, given by their ids
getToolRecommendations(r, query) ==
  LET ids == MatchScores(r, query)
  IN SortByScore(r, query, ids, 1, <<>>)

(***************************************************************************)
(* exportData / importData                                                 *)
(***************************************************************************)
\* the serializable form of one tool: execute is dropped, the id is added
SerializableTool(r, id) == [r.tools[id] EXCEPT !.id = id, !.execute = FALSE]

exportData(r) ==
  [tools |-> [i \in 1..Len(r.toolOrder) |-> SerializableTool(r, r.toolOrder[i])],
   usageStats |-> r.usageStats]

\* the loop of importData over data.tools
RECURSIVE ImportTools(_, _, _, _, _)
ImportTools(r, defs, i, n, count) ==
  IF i > Len(defs) THEN Outcome(r, count, n)
  ELSE LET res == registerTool(r, defs[i], n)
       IN ImportTools(res.reg, defs, i + 1, n + res.uuids,
                      IF res.ret = "true" THEN count + 1 ELSE count)

\* the loop of importData over data.usageStats
ImportStats(r, stats) ==
  LET hit == DOMAIN stats \cap DOMAIN r.tools
  IN [r EXCEPT !.usageStats =
        [id \in DOMAIN @ \cup hit |-> IF id \in hit THEN stats[id] ELSE @[id]]]

\* importData(data) with n uuids handed out so far; uuids is the number of
\* uuids handed out afterwards
importData(data, n) ==
  LET res == ImportTools(EmptyRegistry, data.tools, 1, n, 0)
  IN Outcome(ImportStats(res.reg, data.usageStats), res.ret, res.uuids - n)

(***************************************************************************)
(* loadFromDirectory                                                       *)
(***************************************************************************)
\* the value of a directory entry that yields no definition
NoDefinition == MkDef(Absent, Absent, Absent, <<>>, <<>>, FALSE)

\* a .js module whose default export is the definition
JsModule(def) == [ext |-> "js", loads |-> TRUE, def |-> def]

\* a .json file: JSON.parse gives the definition without a function
JsonFile(def) == [ext |-> "json", loads |-> TRUE, def |-> [def EXCEPT !.execute = FALSE]]

\* a file that readFile, JSON.parse or import() fails on
BrokenFile(ext) == [ext |-> ext, loads |-> FALSE, def |-> NoDefinition]

\* an entry with another extension
OtherFile == [ext |-> "md", loads |-> TRUE, def |-> NoDefinition]

Directory(accessible, listable, files) ==
  [accessible |-> accessible, listable |-> listable, files |-> files]

\* the directories handed to loadFromDirectory
Directories ==
  { Directory(FALSE, FALSE, <<>>),
    Directory(TRUE, FALSE, <<>>),
    Directory(TRUE, TRUE, <<BrokenFile("json"), OtherFile, JsModule(DefAlphaLower)>>),
    Directory(TRUE, TRUE, <<JsModule(DefNoName), BrokenFile("js"), JsonFile(DefAlpha)>>),
    Directory(TRUE, TRUE, <<JsModule(DefAlpha), JsModule(DefBeta)>>),
    Directory(TRUE, TRUE, <<JsModule(DefMalformed), JsModule(DefAlpha)>>) }

\* the loop over the files of the directory
RECURSIVE LoadFiles(_, _, _, _, _)
LoadFiles(r, files, i, n, loadedCount) ==
  IF i > Len(files) THEN Outcome(r, loadedCount, n)
  ELSE IF files[i].ext \notin {"js", "json"} \/ ~files[i].loads
       THEN LoadFiles(r, files, i + 1, n, loadedCount)
       ELSE LET res == registerTool(r, files[i].def, n)
            IN LoadFiles(res.reg, files, i + 1, n + res.uuids,
                         IF res.ret = "true" THEN loadedCount + 1 ELSE loadedCount)

\* loadFromDirectory(directory) with n uuids handed out so far, its files
\* loaded with no other registry call in between
loadFromDirectory(r, directory, n) ==
  IF ~directory.accessible THEN Outcome(r, 0, 0)
  ELSE IF ~directory.listable THEN Outcome(r, "throws", 0)
  ELSE LET res == LoadFiles(r, directory.files, 1, n, 0)
       IN Outcome(res.reg, res.ret, res.uuids - n)

(***************************************************************************)
(* The orchestrator: processQuery, getOrCreateContext, cleanupIdleContexts *)
(* and the socket handler that starts a processQuery per agent:query.      *)
(***************************************************************************)
SessionIds == {"s1", "s2"}

\* the connected clients; each sends its next agent:query once the previous
\* one was answered, and two clients may name the same session
Sockets == {"a", "b"}

\* number of agent:query frames received in one run
MaxQueries == 2

\* maxAgeMs of cleanupIdleContexts, 30 minutes, in units of 15 minutes
MaxAgeMs == 2

\* the clock stops one unit past the idle age: no comparison of the code
\* tells larger ages apart
MaxTime == MaxAgeMs + 1

\* no Context object
NoContext == 0

\* createToolExecutionContext(sessionId, userId) (./context.js): a fresh
\* Context with an empty turn history, stamped with the time of creation
createToolExecutionContext(sessionId, t) ==
  [sessionId |-> sessionId, conversationHistory |-> <<>>, lastUpdated |-> t]

\* storeSession(sessionId, context) (../data/sessionManager.js): the
\* persistence collaborator keeps a serializable copy of the Context
storeSession(store, sessionId, context) == MapSet(store, sessionId, context)

\* retrieveSession(sessionId): the saved copy, as a new object
retrieveSession(store, sessionId) == store[sessionId]

\* a variant of step 6 that pushes the user turn only
AppendUserTurnOnly(history) == Append(history, [role |-> "user"])

\* the two pushes of step 6 of processQuery
AppendTurns(history) ==
  Append(Append(history, [role |-> "user"]), [role |-> "assistant"])

\* a Context object nothing refers to any more (garbage)
Collected == [sessionId |-> Absent, conversationHistory |-> <<>>, lastUpdated |-> 0]

\* the Context objects with the unreferenced ones collected, given the new
\* session map and queries
Collect(ctxs, active, qs) ==
  [c \in DOMAIN ctxs |->
     IF (\E s \in DOMAIN active : active[s] = c) \/ (\E q \in Sockets : qs[q].context = c)
     THEN ctxs[c] ELSE Collected]

\* the Context a query works on
ContextOf(q) == contexts[queries[q].context]

\* a processQuery invocation that was called and has not returned
InProgress(q) == queries[q].pc \notin {"idle", "done"}

\* the query texts: an empty text and a non-empty one
EmptyText == ""

Texts == {EmptyText, "hello"}

\* the outputs executeToolChain resolves with (executionResults.outputs)
Outputs == {<<>>, <<"o1">>}

\* the locals of a processQuery invocation: the position (pc), the fields of
\* queryData, the Context, what await retrieveSession gave getOrCreateContext
\* (savedSession, until the next step), the intent, the execution outputs, the error caught and
\* the value returned (its error flag and its text)
IdleQuery ==
  [pc |-> "idle", sessionId |-> Absent, text |-> Absent, context |-> NoContext,
   savedSession |-> Absent, intent |-> Absent, outputs |-> <<>>, error |-> Absent,
   result |-> Absent, resultText |-> Absent]

\* the value processQuery returned: the locals are gone
Returned(query, result, resultText) ==
  [IdleQuery EXCEPT !.pc = "done", !.sessionId = query.sessionId, !.text = query.text,
                    !.result = result, !.resultText = resultText]

\* socket.emit(frame) on the socket of query q
Emit(q, frame) == frames' = [frames EXCEPT ![q] = Append(@, frame)]

OrchInit ==
  /\ activeContexts = EmptyMap
  /\ contexts = <<>>
  /\ persisted = EmptyMap
  /\ queries = [q \in Sockets |-> IdleQuery]
  /\ received = 0
  /\ now = 0
  /\ cleanedCount = 0
  /\ frames = [q \in Sockets |-> <<>>]

\* move query q to a new position
Goto(q, pc) == queries' = [queries EXCEPT ![q].pc = pc]

\* socket.on('agent:query'): processQuery is called at once; it calls
\* getOrCreateContext, which returns the Context in memory or goes on to
\* await retrieveSession
ReceiveQuery(q, sessionId, text) ==
  /\ queries[q].pc \in {"idle", "done"}
  /\ received < MaxQueries
  /\ received = 0 => q = "a" /\ sessionId = "s1"
  /\ received' = received + 1
  /\ frames' = [frames EXCEPT ![q] = <<>>]
  /\ IF sessionId \in DOMAIN activeContexts
     THEN queries' = [queries EXCEPT ![q] = [IdleQuery EXCEPT !.pc = "analyzing",
                                                              !.sessionId = sessionId,
                                                              !.text = text,
                                                              !.context = activeContexts[sessionId]]]
     ELSE queries' = [queries EXCEPT ![q] = [IdleQuery EXCEPT !.pc = "retrieving",
                                                              !.sessionId = sessionId,
                                                              !.text = text]]
  /\ UNCHANGED <<activeContexts, contexts, persisted, now, cleanedCount, regVars, execVars, connVars, authVars, clientVars>>

\* socket.on('agent:query') without a payload: the destructuring of queryData
\* throws before the try block, processQuery rejects and the socket handler
\* emits agent:error
ReceiveNoData(q) ==
  /\ queries[q].pc \in {"idle", "done"}
  /\ received < MaxQueries
  /\ received' = received + 1
  /\ frames' = [frames EXCEPT ![q] = <<"error">>]
  /\ queries' = [queries EXCEPT ![q] = [IdleQuery EXCEPT !.pc = "done", !.result = "rejected"]]
  /\ contexts' = Collect(contexts, activeContexts, queries')
  /\ UNCHANGED <<activeContexts, persisted, now, cleanedCount, regVars, execVars, connVars, authVars, clientVars>>

\* a variant of AdoptContext that hands the Context to the query without
\* storing it in activeContexts
AdoptWithoutStoring(q, context, savedSession) ==
  /\ activeContexts' = activeContexts
  /\ queries' = [queries EXCEPT ![q] = [@ EXCEPT !.pc = "analyzing",
                                                   !.context = Len(contexts) + 1,
                                                   !.savedSession = savedSession]]
  /\ contexts' = Collect(Append(contexts, context), activeContexts', queries')

\* store a new Context object under the session and hand it to query q
AdoptContext(q, context, savedSession) ==
  /\ activeContexts' = MapSet(activeContexts, queries[q].sessionId, Len(contexts) + 1)
  /\ queries' = [queries EXCEPT ![q] = [@ EXCEPT !.pc = "analyzing",
                                                   !.context = Len(contexts) + 1,
                                                   !.savedSession = savedSession]]
  /\ contexts' = Collect(Append(contexts, context), activeContexts', queries')

\* retrieveSession resolved with a saved session
RetrieveSaved(q) ==
  /\ queries[q].pc = "retrieving"
  /\ queries[q].sessionId \in DOMAIN persisted
  /\ AdoptContext(q, retrieveSession(persisted, queries[q].sessionId), "session")
  /\ UNCHANGED <<persisted, received, now, cleanedCount, frames, regVars, execVars, connVars, authVars, clientVars>>

\* retrieveSession resolved with nothing (savedSession "null") or threw
\* (savedSession "threw"): a new Context is created
RetrieveNone(q) ==
  /\ queries[q].pc = "retrieving"
  /\ \E savedSession \in {"null", "threw"} :
       /\ savedSession = "null" => queries[q].sessionId \notin DOMAIN persisted
       /\ AdoptContext(q, createToolExecutionContext(queries[q].sessionId, now), savedSession)
  /\ UNCHANGED <<persisted, received, now, cleanedCount, frames, regVars, execVars, connVars, authVars, clientVars>>

\* the value of a rejection that carries no reason (reject(), throw undefined)
NoReason == "<undefined>"

\* the positions at which processQuery awaits a collaborator inside its try
AwaitPoints == {"analyzing", "planning", "executing", "synthesizing", "storing"}

\* an awaited collaborator rejects: the query goes to the catch block with
\* the error
Rejects(q, at, error) ==
  /\ queries[q].pc = at
  /\ queries' = [queries EXCEPT ![q] = [@ EXCEPT !.pc = "handlingError", !.error = error,
                                                   !.savedSession = Absent]]
  /\ UNCHANGED <<activeContexts, contexts, persisted, received, now, cleanedCount, frames, regVars, execVars, connVars, authVars, clientVars>>

\* an awaited collaborator rejects without a reason
FailsWithoutReason(q) == \E at \in AwaitPoints : Rejects(q, at, NoReason)

\* one awaited collaborator step (analysis, planning, execution) resolves
\* and the query goes on, or rejects and the query goes to the catch block
Collaborate(q, at, next) ==
  /\ queries[q].pc = at
  /\ Goto(q, next)
  /\ UNCHANGED <<activeContexts, contexts, persisted, received, now, cleanedCount, regVars, execVars, connVars, authVars, clientVars>>

\* analyzeIntent(text, llm) and extractEntities(text, llm) (../nlp): the
\* language-model collaborator may answer or fail, whatever the text
AnalysisOutcomes(text) == {"resolves", "rejects"}

\* step 2: analyzeIntent and extractEntities resolve, the status frame
\* 'analyzing' is emitted and generateToolPlan is called
Analyze(q) ==
  /\ queries[q].pc = "analyzing"
  /\ "resolves" \in AnalysisOutcomes(queries[q].text)
  /\ queries' = [queries EXCEPT ![q] = [@ EXCEPT !.pc = "planning", !.intent = "primary",
                                                   !.savedSession = Absent]]
  /\ Emit(q, "status:analyzing")
  /\ UNCHANGED <<activeContexts, contexts, persisted, received, now, cleanedCount, regVars, execVars, connVars, authVars, clientVars>>

AnalyzeFails(q) ==
  /\ "rejects" \in AnalysisOutcomes(queries[q].text)
  /\ Rejects(q, "analyzing", "analysis")

\* step 3: generateToolPlan resolves, the status frame 'planning' is emitted
\* and executeToolChain is called
Plan(q) == Collaborate(q, "planning", "executing") /\ Emit(q, "status:planning")

PlanFails(q) == Rejects(q, "planning", "planning")

\* at most this many progress callbacks per query
MaxProgress == 1

\* executeToolChain calls onProgress
Progress(q) ==
  /\ queries[q].pc = "executing"
  /\ Len(SelectSeq(frames[q], LAMBDA f : f = "progress")) < MaxProgress
  /\ Emit(q, "progress")
  /\ UNCHANGED <<activeContexts, contexts, persisted, queries, received, now, cleanedCount, regVars, execVars, connVars, authVars, clientVars>>

\* step 4: executeToolChain resolves with its outputs and synthesizeResults
\* is called
Execute(q, outputs) ==
  /\ queries[q].pc = "executing"
  /\ queries' = [queries EXCEPT ![q] = [@ EXCEPT !.pc = "synthesizing", !.outputs = outputs]]
  /\ UNCHANGED <<activeContexts, contexts, persisted, received, now, cleanedCount, frames, regVars, execVars, connVars, authVars, clientVars>>

ExecuteFails(q) == Rejects(q, "executing", "execution")

\* synthesizeResults resolves: both turns are pushed, then storeSession is awaited
SynthesizeOk(q) ==
  /\ queries[q].pc = "synthesizing"
  /\ contexts' = [contexts EXCEPT ![queries[q].context].conversationHistory =
                                     AppendTurns(@)]
  /\ Goto(q, "storing")
  /\ UNCHANGED <<activeContexts, persisted, received, now, cleanedCount, frames, regVars, execVars, connVars, authVars, clientVars>>

SynthesizeFails(q) == Rejects(q, "synthesizing", "synthesis")

\* storeSession resolves: the collaborator keeps a copy; processQuery returns
\* the response and the socket handler emits it
StoreOk(q) ==
  /\ queries[q].pc = "storing"
  /\ persisted' = storeSession(persisted, queries[q].sessionId, ContextOf(q))
  /\ queries' = [queries EXCEPT ![q] = Returned(@, "response", "response.text")]
  /\ Emit(q, "response")
  /\ contexts' = Collect(contexts, activeContexts, queries')
  /\ UNCHANGED <<activeContexts, received, now, cleanedCount, regVars, execVars, connVars, authVars, clientVars>>

StoreFails(q) == Rejects(q, "storing", "storage")

\* handleExecutionError: the text is the user message of the error type,
\* followed by the completion of the fallback model when there is an LLM
\* client and its call succeeds
handleExecutionError(error, fallback) ==
  IF fallback THEN "userMessage fallback" ELSE "userMessage"

\* the catch block: handleExecutionError resolves, the error result is
\* returned and the socket handler emits it as agent:response; with an error
\* that is undefined, reading error.code throws in handleExecutionError,
\* processQuery rejects and the socket handler emits agent:error
HandleError(q, fallback) ==
  /\ queries[q].pc = "handlingError"
  /\ IF queries[q].error = NoReason
     THEN /\ queries' = [queries EXCEPT ![q] = Returned(@, "rejected", Absent)]
          /\ Emit(q, "error")
     ELSE /\ queries' = [queries EXCEPT ![q] =
                           Returned(@, "error", handleExecutionError(queries[q].error, fallback))]
          /\ Emit(q, "response")
  /\ contexts' = Collect(contexts, activeContexts, queries')
  /\ UNCHANGED <<activeContexts, persisted, received, now, cleanedCount, regVars, execVars, connVars, authVars, clientVars>>

\* a variant of the test of cleanupIdleContexts that evicts at the idle age
IdleSessionsInclusive(maxAgeMs) ==
  {s \in DOMAIN activeContexts : now - contexts[activeContexts[s]].lastUpdated >= maxAgeMs}

\* the sessions whose entry passes the test now - lastUpdated > maxAgeMs
IdleSessions(maxAgeMs) ==
  {s \in DOMAIN activeContexts : now - contexts[activeContexts[s]].lastUpdated > maxAgeMs}

\* the loop of cleanupIdleContexts over the entries of activeContexts: an
\* entry that passes the test is deleted and counted
RECURSIVE CleanupLoop(_, _, _, _)
CleanupLoop(active, todo, maxAgeMs, count) ==
  IF todo = {} THEN [activeContexts |-> active, cleanedCount |-> count]
  ELSE LET s == CHOOSE x \in todo : TRUE
       IN IF s \in IdleSessions(maxAgeMs)
          THEN CleanupLoop(MapDelete(active, s), todo \ {s}, maxAgeMs, count + 1)
          ELSE CleanupLoop(active, todo \ {s}, maxAgeMs, count)

cleanupIdleContexts(maxAgeMs) ==
  CleanupLoop(activeContexts, DOMAIN activeContexts, maxAgeMs, 0)

\* the setInterval callback: cleanupIdleContexts() with the default age
CleanupIdleContexts ==
  /\ activeContexts' = cleanupIdleContexts(MaxAgeMs).activeContexts
  /\ cleanedCount' = cleanupIdleContexts(MaxAgeMs).cleanedCount
  /\ contexts' = Collect(contexts, activeContexts', queries)
  /\ UNCHANGED <<persisted, queries, received, now, frames, regVars, execVars, connVars, authVars, clientVars>>

Tick ==
  /\ now < MaxTime
  /\ now' = now + 1
  /\ UNCHANGED <<activeContexts, contexts, persisted, queries, received, cleanedCount, frames, regVars, execVars, connVars, authVars, clientVars>>

\* overlapping queries of two clients: one text, one execution result, no
\* progress reports and no LLM client (OPENAI_API_KEY unset)
OrchNext ==
  \/ \E q \in Sockets, sessionId \in SessionIds, text \in {"hello"} : ReceiveQuery(q, sessionId, text)
  \/ \E q \in Sockets : RetrieveSaved(q)
  \/ \E q \in Sockets : RetrieveNone(q)
  \/ \E q \in Sockets : Analyze(q)
  \/ \E q \in Sockets : AnalyzeFails(q)
  \/ \E q \in Sockets : Plan(q)
  \/ \E q \in Sockets : PlanFails(q)
  \/ \E q \in Sockets, outputs \in {<<"o1">>} : Execute(q, outputs)
  \/ \E q \in Sockets : ExecuteFails(q)
  \/ \E q \in Sockets : SynthesizeOk(q)
  \/ \E q \in Sockets : SynthesizeFails(q)
  \/ \E q \in Sockets : StoreOk(q)
  \/ \E q \in Sockets : StoreFails(q)
  \/ \E q \in Sockets, fallback \in {FALSE} : HandleError(q, fallback)
  \/ CleanupIdleContexts
  \/ Tick

\* the queries of one client, one after the other, with every input and
\* every outcome of the collaborators
QueryNext ==
  \/ \E q \in {"a"}, sessionId \in SessionIds, text \in Texts : ReceiveQuery(q, sessionId, text)
  \/ \E q \in {"a"} : ReceiveNoData(q)
  \/ \E q \in {"a"} : RetrieveSaved(q)
  \/ \E q \in {"a"} : RetrieveNone(q)
  \/ \E q \in {"a"} : Analyze(q)
  \/ \E q \in {"a"} : AnalyzeFails(q)
  \/ \E q \in {"a"} : Plan(q)
  \/ \E q \in {"a"} : PlanFails(q)
  \/ \E q \in {"a"} : Progress(q)
  \/ \E q \in {"a"}, outputs \in Outputs : Execute(q, outputs)
  \/ \E q \in {"a"} : ExecuteFails(q)
  \/ \E q \in {"a"} : SynthesizeOk(q)
  \/ \E q \in {"a"} : SynthesizeFails(q)
  \/ \E q \in {"a"} : StoreOk(q)
  \/ \E q \in {"a"} : StoreFails(q)
  \/ \E q \in {"a"} : FailsWithoutReason(q)
  \/ \E q \in {"a"}, fallback \in BOOLEAN : HandleError(q, fallback)
  \/ CleanupIdleContexts
  \/ Tick

(***************************************************************************)
(* The executor: executeToolChain({plan, context, toolRegistry,            *)
(* onProgress}) runs the steps of the plan that generateToolPlan made.     *)
(***************************************************************************)
\* a plan has at most this many steps
MaxSteps == 3

\* the parallelism limit P
Parallelism == 2

\* the retry budget of a step
RetryBudget == 1

\* the plans of n steps: plan[s] is the set of steps that step s declares
\* as its dependencies, each of them earlier in the insertion order
PlansOf(n) == {p \in [1..n -> SUBSET (1..n)] : \A s \in 1..n : p[s] \subseteq 1..(s - 1)}

Plans == UNION {PlansOf(n) : n \in 1..MaxSteps}

\* no plan is being executed
NoPlan == <<>>

\* the states of a StepOutcome
TerminalStates == {"Succeeded", "Failed", "Skipped", "TimedOut"}

ExecInit ==
  /\ plan = NoPlan
  /\ outcomes = <<>>
  /\ attempts = <<>>
  /\ cancelled = FALSE

\* every step of the plan is in a terminal state
Completed == \A s \in DOMAIN plan : outcomes[s] \in TerminalStates

\* the steps a plan may have
Steps == 1..MaxSteps

\* step 4 of processQuery: executeToolChain is called with the plan
ExecuteToolChain(p) ==
  /\ plan = NoPlan
  /\ plan' = p
  /\ outcomes' = [s \in DOMAIN p |-> "Pending"]
  /\ attempts' = [s \in DOMAIN p |-> 0]
  /\ cancelled' = FALSE
  /\ UNCHANGED <<regVars, orchVars, connVars, authVars, clientVars>>

\* the plan has completed: executeToolChain resolves with the results
ExecutionReturns ==
  /\ plan # NoPlan
  /\ Completed
  /\ plan' = NoPlan
  /\ outcomes' = <<>>
  /\ attempts' = <<>>
  /\ cancelled' = FALSE
  /\ UNCHANGED <<regVars, orchVars, connVars, authVars, clientVars>>

\* a variant of the ready test that looks at the state of the step only
ReadyUnordered(s) == outcomes[s] = "Pending"

\* the ready queue: the steps whose dependencies are all in Succeeded
Ready(s) == outcomes[s] = "Pending" /\ \A d \in plan[s] : outcomes[d] = "Succeeded"

\* the in-flight set
InFlight == {s \in DOMAIN plan : outcomes[s] = "Running"}

\* a scheduling tick moves a step from ready to in-flight
StartStep(s) ==
  /\ s \in DOMAIN plan
  /\ Ready(s)
  /\ Cardinality(InFlight) < Parallelism
  /\ outcomes' = [outcomes EXCEPT ![s] = "Running"]
  /\ UNCHANGED <<plan, attempts, cancelled, regVars, orchVars, connVars, authVars, clientVars>>

\* the tool of the step returns its output
StepSucceeds(s) ==
  /\ s \in DOMAIN plan
  /\ outcomes[s] = "Running"
  /\ outcomes' = [outcomes EXCEPT ![s] = "Succeeded"]
  /\ UNCHANGED <<plan, attempts, cancelled, regVars, orchVars, connVars, authVars, clientVars>>

\* the tool fails with a transient error, or a fallback tool is attached:
\* the step is tried again
StepRetries(s) ==
  /\ s \in DOMAIN plan
  /\ outcomes[s] = "Running"
  /\ ~cancelled
  /\ attempts[s] < RetryBudget
  /\ attempts' = [attempts EXCEPT ![s] = @ + 1]
  /\ UNCHANGED <<plan, outcomes, cancelled, regVars, orchVars, connVars, authVars, clientVars>>

\* the steps that depend on step s, directly or through other steps
RECURSIVE Dependents(_, _)
Dependents(done, n) ==
  LET more == {t \in DOMAIN plan : plan[t] \cap done # {}} \ done
  IN IF more = {} \/ n = 0 THEN done ELSE Dependents(done \cup more, n - 1)

\* the tool fails for good or its deadline passes: the step is Failed or
\* TimedOut and every step that depended on it is Skipped
StepFails(s, state) ==
  /\ s \in DOMAIN plan
  /\ outcomes[s] = "Running"
  /\ outcomes' = [t \in DOMAIN plan |->
                    IF t = s THEN state
                    ELSE IF t \in Dependents({s}, Len(plan)) THEN "Skipped"
                    ELSE outcomes[t]]
  /\ UNCHANGED <<plan, attempts, cancelled, regVars, orchVars, connVars, authVars, clientVars>>

\* the cancellation signal: the steps that have not started are Skipped and
\* the steps in flight are told to abort
Cancel ==
  /\ ~cancelled
  /\ ~Completed
  /\ cancelled' = TRUE
  /\ outcomes' = [t \in DOMAIN plan |-> IF outcomes[t] = "Pending" THEN "Skipped" ELSE outcomes[t]]
  /\ UNCHANGED <<plan, attempts, regVars, orchVars, connVars, authVars, clientVars>>

ExecNext ==
  \/ \E p \in Plans : ExecuteToolChain(p)
  \/ \E s \in Steps : StartStep(s)
  \/ \E s \in Steps : StepSucceeds(s)
  \/ \E s \in Steps : StepRetries(s)
  \/ \E s \in Steps, state \in {"Failed", "TimedOut"} : StepFails(s, state)
  \/ Cancel
  \/ ExecutionReturns

(***************************************************************************)
(* Database connections (data/connections.js): the connect functions with  *)
(* their retries, connectDatabases, closeDatabases, the reconnect handlers  *)
(* and their timers.                                                       *)
(***************************************************************************)
Databases == {"mongodb", "mongoose", "postgres", "redis", "pinecone"}

\* retryConfig.maxRetries
maxRetries == 1

\* connectDatabases is called at most this many times
MaxStartups == 2

\* a connection is lost by itself at most this many times
MaxLosses == 1

\* process.env: the databases configured (MONGO_URL or USE_MONGODB,
\* USE_MONGOOSE, POSTGRES_HOST or USE_POSTGRES, REDIS_URL or REDIS_HOST or
\* USE_REDIS, PINECONE_API_KEY or USE_PINECONE), the databases whose
\* <NAME>_REQUIRED is 'true', and whether PINECONE_API_KEY is set
Environment(configured, required, apiKey) ==
  [configured |-> configured, required |-> required, apiKey |-> apiKey]

\* nothing configured
NoEnvironment == Environment({}, {}, FALSE)

\* the environments with at most two databases configured
Environments ==
  { Environment(c, r, k) :
      c \in {x \in SUBSET Databases :
               Cardinality(x) <= 2 /\ ("mongoose" \in x => "mongodb" \in x)},
      r \in SUBSET (Databases \ {"mongoose"}),
      k \in BOOLEAN }

\* an environment as connectDatabases can meet it: a database is required
\* only if configured, and a configured Pinecone has its key or USE_PINECONE
ValidEnvironment(e) ==
  /\ e.required \subseteq e.configured
  /\ e.apiKey => "pinecone" \in e.configured

\* a connect function that is not running
NoCall == [pc |-> "idle", caller |-> "none"]

\* the positions at which an invocation of a connect function has settled:
\* it returned the client, returned null or threw
Settled == {"idle", "resolved", "null", "rejected"}

\* connectDatabases or closeDatabases not called
NoStartup == [pc |-> "idle", results |-> [db \in Databases |-> "none"]]

NoShutdown == [pc |-> "idle", pending |-> {}, closed |-> {}]

ConnInit ==
  /\ env = NoEnvironment
  /\ connections = [db \in Databases |-> FALSE]
  /\ connectionStatus = [db \in Databases |-> "disconnected"]
  /\ currentRetries = [db \in Databases |-> 0]
  /\ connectCalls = [db \in Databases |-> NoCall]
  /\ connectAttempts = [db \in Databases |-> 0]
  /\ reconnectTimers = {}
  /\ startup = NoStartup
  /\ startups = 0
  /\ losses = 0
  /\ shutdown = NoShutdown

\* the start of a connect function, up to its first await: it returns the
\* connection there is, returns null without a Pinecone key, or sets the
\* status to 'connecting' and awaits the driver
Enter(db, status, e) ==
  IF connections[db] /\ status[db] = "connected" THEN [pc |-> "resolved", status |-> status]
  ELSE IF db = "pinecone" /\ ~e.apiKey THEN [pc |-> "null", status |-> status]
  ELSE [pc |-> "connecting", status |-> [status EXCEPT ![db] = "connecting"]]

\* the result of the promise of a connect function, as allSettled sees it
Result(pc) ==
  CASE pc \in {"resolved", "null"} -> "fulfilled"
    [] pc = "rejected"             -> "rejected"
    [] OTHER                       -> "pending"

\* the call of db by caller goes to position pc: connectDatabases sees the
\* result of a call it made
Settle(db, pc) ==
  /\ connectCalls' = [connectCalls EXCEPT ![db].pc = pc]
  /\ startup' = IF connectCalls[db].caller = "startup" /\ startup.pc = "waiting"
                THEN [startup EXCEPT !.results[db] = Result(pc)]
                ELSE startup

\* MongoDB is required by default if not specified otherwise
requiredConnections(e) ==
  IF e.required \cap e.configured = {} /\ "mongodb" \in e.configured
  THEN {"mongodb"}
  ELSE e.required \cap e.configured

\* connectDatabases(): every configured connect function is called, each
\* running up to its first await, and Promise.allSettled is awaited
ConnectDatabases(e) ==
  /\ ValidEnvironment(e)
  /\ startups < MaxStartups
  /\ startups = 0 \/ env = e
  /\ startup.pc # "waiting"
  /\ shutdown.pc # "closing"
  /\ \A db \in e.configured : connectCalls[db].pc \in Settled
  /\ startups' = startups + 1
  /\ env' = e
  /\ LET entered == [db \in Databases |-> Enter(db, connectionStatus, e).pc]
     IN /\ connectCalls' = [db \in Databases |->
                              IF db \in e.configured
                              THEN [pc |-> entered[db], caller |-> "startup"]
                              ELSE connectCalls[db]]
        /\ connectionStatus' = [db \in Databases |->
                                  IF db \in e.configured /\ entered[db] = "connecting"
                                  THEN "connecting" ELSE connectionStatus[db]]
        /\ connectAttempts' = [db \in Databases |->
                                 IF db \in e.configured
                                 THEN (IF entered[db] = "connecting" THEN 1 ELSE 0)
                                 ELSE connectAttempts[db]]
        /\ startup' = [pc |-> "waiting",
                       results |-> [db \in Databases |->
                                      IF db \in e.configured THEN Result(entered[db])
                                      ELSE "none"]]
  /\ shutdown' = NoShutdown
  /\ UNCHANGED <<connections, currentRetries, reconnectTimers, losses>>
  /\ UNCHANGED <<regVars, orchVars, execVars, authVars, clientVars>>

\* the driver connects: the connection is kept, the status is 'connected'
\* and the retry counter is reset
ConnectSucceeds(db) ==
  /\ connectCalls[db].pc = "connecting"
  /\ connections' = [connections EXCEPT ![db] = TRUE]
  /\ connectionStatus' = [connectionStatus EXCEPT ![db] = "connected"]
  /\ currentRetries' = [currentRetries EXCEPT ![db] = 0]
  /\ Settle(db, "resolved")
  /\ UNCHANGED <<env, connectAttempts, reconnectTimers, startups, losses, shutdown>>
  /\ UNCHANGED <<regVars, orchVars, execVars, authVars, clientVars>>

\* the driver fails: the catch block counts the retry and waits for
\* retryDelay, or gives up: connectToPostgres, connectToRedis and
\* connectToPinecone return null unless <NAME>_REQUIRED is 'true'
ConnectFails(db) ==
  /\ connectCalls[db].pc = "connecting"
  /\ connectionStatus' = [connectionStatus EXCEPT ![db] = "error"]
  /\ currentRetries' = [currentRetries EXCEPT ![db] = @ + 1]
  /\ IF currentRetries'[db] <= maxRetries
     THEN Settle(db, "retryWait")
     ELSE IF db \in {"postgres", "redis", "pinecone"} /\ db \notin env.required
          THEN Settle(db, "null")
          ELSE Settle(db, "rejected")
  /\ UNCHANGED <<env, connections, connectAttempts, reconnectTimers, startups, losses, shutdown>>
  /\ UNCHANGED <<regVars, orchVars, execVars, authVars, clientVars>>

\* retryDelay has passed: the connect function calls itself
Retry(db) ==
  /\ connectCalls[db].pc = "retryWait"
  /\ LET entered == Enter(db, connectionStatus, env)
     IN /\ Settle(db, entered.pc)
        /\ connectionStatus' = entered.status
        /\ connectAttempts' = [connectAttempts EXCEPT ![db] =
                                 IF entered.pc = "connecting" THEN @ + 1 ELSE @]
  /\ UNCHANGED <<env, connections, currentRetries, reconnectTimers, startups, losses, shutdown>>
  /\ UNCHANGED <<regVars, orchVars, execVars, authVars, clientVars>>

\* Promise.allSettled resolves: connectDatabases throws when a required
\* connection was rejected and returns the connections otherwise
StartupSettles ==
  /\ startup.pc = "waiting"
  /\ \A db \in env.configured : startup.results[db] # "pending"
  /\ LET failedRequired == {db \in env.configured :
                              startup.results[db] = "rejected" /\ db \in requiredConnections(env)}
     IN startup' = [startup EXCEPT !.pc = IF failedRequired # {} THEN "rejected" ELSE "resolved"]
  /\ UNCHANGED <<env, connections, connectionStatus, currentRetries, connectCalls,
                 connectAttempts, reconnectTimers, startups, losses, shutdown>>
  /\ UNCHANGED <<regVars, orchVars, execVars, authVars, clientVars>>

\* the databases whose connection has a handler that reconnects
Monitored == {"mongodb", "mongoose"}

\* the 'close' handler of the MongoDB client and the 'disconnected' handler
\* of the Mongoose connection: the status is 'disconnected' and a timer of
\* retryDelay is set (by the Mongoose handler only while retries are left)
Disconnected(db, status, timers) ==
  [status |-> [status EXCEPT ![db] = "disconnected"],
   timers |-> IF db = "mongodb" \/ currentRetries[db] <= maxRetries
              THEN timers \cup {db} ELSE timers]

\* the connection is lost: the driver emits 'close' or 'disconnected'
ConnectionLost(db) ==
  /\ db \in Monitored
  /\ losses < MaxLosses
  /\ connections[db]
  /\ connectionStatus[db] = "connected"
  /\ db \notin shutdown.pending
  /\ losses' = losses + 1
  /\ connectionStatus' = Disconnected(db, connectionStatus, reconnectTimers).status
  /\ reconnectTimers' = Disconnected(db, connectionStatus, reconnectTimers).timers
  /\ UNCHANGED <<env, connections, currentRetries, connectCalls, connectAttempts,
                 startup, startups, shutdown>>
  /\ UNCHANGED <<regVars, orchVars, execVars, authVars, clientVars>>

\* the timer of a handler fires: the connect function is called if the
\* status is still 'disconnected'
ReconnectTimer(db) ==
  /\ db \in reconnectTimers
  /\ connectCalls[db].pc \in Settled
  /\ reconnectTimers' = reconnectTimers \ {db}
  /\ IF connectionStatus[db] = "disconnected"
     THEN LET entered == Enter(db, connectionStatus, env)
          IN /\ connectCalls' = [connectCalls EXCEPT ![db] = [pc |-> entered.pc, caller |-> "timer"]]
             /\ connectionStatus' = entered.status
             /\ connectAttempts' = [connectAttempts EXCEPT ![db] =
                                      IF entered.pc = "connecting" THEN 1 ELSE 0]
     ELSE UNCHANGED <<connectCalls, connectionStatus, connectAttempts>>
  /\ UNCHANGED <<env, connections, currentRetries, startup, startups, losses, shutdown>>
  /\ UNCHANGED <<regVars, orchVars, execVars, authVars, clientVars>>

\* the connections closeDatabases closes: those that exist with the status
\* 'connected'; Pinecone is not closed
Closable ==
  {db \in Databases \ {"pinecone"} : connections[db] /\ connectionStatus[db] = "connected"}

\* closeDatabases(): close() or quit() is called on every closable
\* connection and Promise.allSettled is awaited
CloseDatabases ==
  /\ shutdown.pc # "closing"
  /\ startup.pc \in {"resolved", "rejected"}
  /\ shutdown' = [pc |-> "closing", pending |-> Closable, closed |-> {}]
  /\ UNCHANGED <<env, connections, connectionStatus, currentRetries, connectCalls,
                 connectAttempts, reconnectTimers, startup, startups, losses>>
  /\ UNCHANGED <<regVars, orchVars, execVars, authVars, clientVars>>

\* a close resolves: the Mongoose connection emits 'disconnected', the
\* MongoDB client emits 'close' or not (emitsClose), and the then callback
\* sets the status to 'disconnected'
CloseResolves(db, emitsClose) ==
  /\ shutdown.pc = "closing"
  /\ db \in shutdown.pending
  /\ db = "mongoose" => emitsClose
  /\ db \notin Monitored => ~emitsClose
  /\ LET handled == IF emitsClose /\ db \in Monitored
                    THEN Disconnected(db, connectionStatus, reconnectTimers)
                    ELSE [status |-> connectionStatus, timers |-> reconnectTimers]
     IN /\ connectionStatus' = [handled.status EXCEPT ![db] = "disconnected"]
        /\ reconnectTimers' = handled.timers
  /\ shutdown' = [shutdown EXCEPT !.pending = @ \ {db}, !.closed = @ \cup {db}]
  /\ UNCHANGED <<env, connections, currentRetries, connectCalls, connectAttempts,
                 startup, startups, losses>>
  /\ UNCHANGED <<regVars, orchVars, execVars, authVars, clientVars>>

\* a close rejects: the catch callback logs the error
CloseRejects(db) ==
  /\ shutdown.pc = "closing"
  /\ db \in shutdown.pending
  /\ shutdown' = [shutdown EXCEPT !.pending = @ \ {db}]
  /\ UNCHANGED <<env, connections, connectionStatus, currentRetries, connectCalls,
                 connectAttempts, reconnectTimers, startup, startups, losses>>
  /\ UNCHANGED <<regVars, orchVars, execVars, authVars, clientVars>>

\* Promise.allSettled(closePromises) resolves: closeDatabases has resolved
CloseSettles ==
  /\ shutdown.pc = "closing"
  /\ shutdown.pending = {}
  /\ shutdown' = [shutdown EXCEPT !.pc = "resolved"]
  /\ UNCHANGED <<env, connections, connectionStatus, currentRetries, connectCalls,
                 connectAttempts, reconnectTimers, startup, startups, losses>>
  /\ UNCHANGED <<regVars, orchVars, execVars, authVars, clientVars>>

ConnNext ==
  \/ \E e \in Environments : ConnectDatabases(e)
  \/ \E db \in Databases : ConnectSucceeds(db)
  \/ \E db \in Databases : ConnectFails(db)
  \/ \E db \in Databases : Retry(db)
  \/ StartupSettles
  \/ \E db \in Databases : ConnectionLost(db)
  \/ \E db \in Databases : ReconnectTimer(db)
  \/ CloseDatabases
  \/ \E db \in Databases, emitsClose \in BOOLEAN : CloseResolves(db, emitsClose)
  \/ \E db \in Databases : CloseRejects(db)
  \/ CloseSettles

(***************************************************************************)
(* API key authentication (auth/setup.js): the middleware of               *)
(* createApiKeyMiddleware with its cache, validateApiKey, and the          *)
(* collections apiKeys and users it reads.                                 *)
(***************************************************************************)
ApiKeys == {"k1", "k2"}

UserIds == {"u1"}

\* a request without the x-api-key header
NoApiKey == "<no header>"

\* an API key document without expiresAt
NoExpiry == 0

\* Date.now() runs from 1 to MaxDate
MaxDate == 3

\* the middleware handles at most this many requests
MaxRequests == 3

\* no document found by findOne
NoDoc == [userId |-> "<none>", expiresAt |-> NoExpiry]

\* no request in the middleware
NoRequest == [pc |-> "idle", key |-> NoApiKey, disableAuth |-> FALSE, doc |-> NoDoc,
              response |-> "none", user |-> "<none>"]

AuthInit ==
  /\ apiKeyDocs = [k \in ApiKeys |-> NoDoc]
  /\ userDocs = [u \in UserIds |-> "absent"]
  /\ apiKeyCache = << >>
  /\ authNow = 1
  /\ request = NoRequest
  /\ requests = 0

\* the middleware answers: next() with req.user set, or a status
Respond(r, response, user) ==
  [r EXCEPT !.pc = "done", !.response = response, !.user = user]

\* the cache without the entry of key
CacheDelete(cache, key) == [k \in DOMAIN cache \ {key} |-> cache[k]]

\* the cache with the entry of key set
CacheSet(cache, key, entry) ==
  [k \in DOMAIN cache \cup {key} |-> IF k = key THEN entry ELSE cache[k]]

\* a request arrives with the header key, DISABLE_AUTH being disableAuth and
\* getConnection('mongodb') returning a client or null (available): the
\* middleware up to the first await of validateApiKey
ApiKeyRequest(key, disableAuth, available) ==
  /\ request.pc \in {"idle", "done"}
  /\ requests < MaxRequests
  /\ requests' = requests + 1
  /\ LET r == [NoRequest EXCEPT !.key = key, !.disableAuth = disableAuth]
         hit == key \in DOMAIN apiKeyCache
         fresh == hit /\ apiKeyCache[key].expiresAt > authNow
     IN IF disableAuth
        THEN request' = Respond(r, "next", "anonymous") /\ UNCHANGED apiKeyCache
        ELSE IF key = NoApiKey
        THEN request' = Respond(r, "401", "<none>") /\ UNCHANGED apiKeyCache
        ELSE IF fresh
        THEN request' = Respond(r, "next", apiKeyCache[key].user) /\ UNCHANGED apiKeyCache
        ELSE /\ apiKeyCache' = IF hit THEN CacheDelete(apiKeyCache, key) ELSE apiKeyCache
             /\ request' = IF available THEN [r EXCEPT !.pc = "findingKey"]
                           ELSE Respond(r, "401", "<none>")
  /\ UNCHANGED <<apiKeyDocs, userDocs, authNow>>
  /\ UNCHANGED <<regVars, orchVars, execVars, connVars, clientVars>>

\* validateApiKey: findOne on apiKeys has resolved; a missing or expired
\* document gives null and the middleware answers 401
ApiKeyFound ==
  /\ request.pc = "findingKey"
  /\ LET apiKeyDoc == apiKeyDocs[request.key]
     IN request' = IF apiKeyDoc = NoDoc
                   THEN Respond(request, "401", "<none>")
                   ELSE IF apiKeyDoc.expiresAt # NoExpiry /\ apiKeyDoc.expiresAt < authNow
                   THEN Respond(request, "401", "<none>")
                   ELSE [request EXCEPT !.pc = "findingUser", !.doc = apiKeyDoc]
  /\ UNCHANGED <<apiKeyDocs, userDocs, apiKeyCache, authNow, requests>>
  /\ UNCHANGED <<regVars, orchVars, execVars, connVars, clientVars>>

\* validateApiKey: findOne on users has resolved; a missing or disabled user
\* gives null; otherwise the middleware caches the user when the key has an
\* expiresAt and calls next()
UserFound ==
  /\ request.pc = "findingUser"
  /\ LET user == request.doc.userId
     IN IF userDocs[user] # "active"
        THEN request' = Respond(request, "401", "<none>") /\ UNCHANGED apiKeyCache
        ELSE /\ request' = Respond(request, "next", user)
             /\ apiKeyCache' = IF request.doc.expiresAt # NoExpiry
                               THEN CacheSet(apiKeyCache, request.key,
                                             [user |-> user, expiresAt |-> request.doc.expiresAt])
                               ELSE apiKeyCache
  /\ UNCHANGED <<apiKeyDocs, userDocs, authNow, requests>>
  /\ UNCHANGED <<regVars, orchVars, execVars, connVars, clientVars>>

\* a query of validateApiKey fails: the catch returns null
ValidationFails ==
  /\ request.pc \in {"findingKey", "findingUser"}
  /\ request' = Respond(request, "401", "<none>")
  /\ UNCHANGED <<apiKeyDocs, userDocs, apiKeyCache, authNow, requests>>
  /\ UNCHANGED <<regVars, orchVars, execVars, connVars, clientVars>>

\* the collections change outside the middleware: a key is issued
IssueApiKey(key, user, expiresAt) ==
  /\ apiKeyDocs[key] = NoDoc
  /\ expiresAt = NoExpiry \/ expiresAt >= authNow
  /\ apiKeyDocs' = [apiKeyDocs EXCEPT ![key] = [userId |-> user, expiresAt |-> expiresAt]]
  /\ UNCHANGED <<userDocs, apiKeyCache, authNow, request, requests>>
  /\ UNCHANGED <<regVars, orchVars, execVars, connVars, clientVars>>

\* a key is deleted
DeleteApiKey(key) ==
  /\ apiKeyDocs[key] # NoDoc
  /\ apiKeyDocs' = [apiKeyDocs EXCEPT ![key] = NoDoc]
  /\ UNCHANGED <<userDocs, apiKeyCache, authNow, request, requests>>
  /\ UNCHANGED <<regVars, orchVars, execVars, connVars, clientVars>>

\* a user is created, disabled, enabled again or deleted
SetUser(user, state) ==
  /\ userDocs[user] # state
  /\ userDocs' = [userDocs EXCEPT ![user] = state]
  /\ UNCHANGED <<apiKeyDocs, apiKeyCache, authNow, request, requests>>
  /\ UNCHANGED <<regVars, orchVars, execVars, connVars, clientVars>>

\* time passes
AuthTick ==
  /\ authNow < MaxDate
  /\ authNow' = authNow + 1
  /\ UNCHANGED <<apiKeyDocs, userDocs, apiKeyCache, request, requests>>
  /\ UNCHANGED <<regVars, orchVars, execVars, connVars, clientVars>>

AuthNext ==
  \/ \E key \in ApiKeys \cup {NoApiKey}, disableAuth, available \in BOOLEAN :
       ApiKeyRequest(key, disableAuth, available)
  \/ ApiKeyFound
  \/ UserFound
  \/ ValidationFails
  \/ \E key \in ApiKeys, user \in UserIds, expiresAt \in {NoExpiry} \cup (1..MaxDate) :
       IssueApiKey(key, user, expiresAt)
  \/ \E key \in ApiKeys : DeleteApiKey(key)
  \/ \E user \in UserIds, state \in {"absent", "active", "disabled"} : SetUser(user, state)
  \/ AuthTick

(***************************************************************************)
(* The client's agent state (context/AgentContext.js) with the two         *)
(* callers of sendQuery: Chat.handleSubmit and the dashboard's             *)
(* handleQuickQuery.                                                       *)
(***************************************************************************)
\* the sessions getSessionHistory() returns for the user
ServerSessions == <<"s1", "s2">>

\* the session createSession() returns to startNewSession when called by
\* handleQuickQuery of call c, and when called by sendAgentQuery of call c
QuickSessions == <<"q1", "q2", "q3">>

NewSessions == <<"n1", "n2", "n3">>

\* currentSession is null
NoSession == "<null>"

\* error is null
NoError == "<null>"

\* sendQuery is called at most this many times
MaxSends == 2

\* Date.now() when call c appends its messages: the millisecond of the
\* first call or a later one
DateNow(c) == {1, c}

Sends == 1..MaxSends

\* session.messages || [] as getSessionHistory(sessionId) returns it: one
\* earlier message in a session of the server, none in a new session
History(sessionId) ==
  IF \E i \in DOMAIN ServerSessions : ServerSessions[i] = sessionId
  THEN <<[id |-> sessionId, role |-> "user", content |-> sessionId, pending |-> FALSE]>>
  ELSE << >>

\* a sendQuery call that was not made
NoSend == [pc |-> "idle", closure |-> NoSession, sessionId |-> NoSession, pendingId |-> "<none>"]

ClientInit ==
  /\ sessions = << >>
  /\ currentSession = NoSession
  /\ messages = << >>
  /\ isProcessing = FALSE
  /\ clientError = NoError
  /\ sessionsLoading = TRUE
  /\ loads = {}
  /\ sends = [c \in Sends |-> NoSend]

\* the ids in a list of sessions
IdsOf(list) == {list[i] : i \in DOMAIN list}

\* Date.now().toString() and `pending-${Date.now()}`
UserMessageId(t) == <<"1", "2", "3">>[t]

PendingMessageId(t) == <<"pending-1", "pending-2", "pending-3">>[t]

\* response.id
ResponseId(c) == <<"r1", "r2", "r3">>[c]

\* the user message and the pending agent message sendAgentQuery appends
WithQuery(list, c, t) ==
  list \o <<[id |-> UserMessageId(t), role |-> "user", content |-> ResponseId(c), pending |-> FALSE],
            [id |-> PendingMessageId(t), role |-> "assistant", content |-> "", pending |-> TRUE]>>

\* prev.map(msg => msg.id === pendingAgentMessage.id ? response : msg)
WithResponse(list, pendingId, c) ==
  [i \in DOMAIN list |->
     IF list[i].id = pendingId
     THEN [id |-> ResponseId(c), role |-> "assistant", content |-> ResponseId(c), pending |-> FALSE]
     ELSE list[i]]

\* prev.filter(msg => !msg.pending)
WithoutPending(list) == SelectSeq(list, LAMBDA msg : ~msg.pending)

\* the effect of the loadSessions effect has run: the sessions are set, the
\* most recent one is made current and its messages are requested
SessionsLoaded(mostRecent) ==
  /\ sessionsLoading
  /\ mostRecent \in IdsOf(ServerSessions)
  /\ sessionsLoading' = FALSE
  /\ sessions' = ServerSessions
  /\ currentSession' = mostRecent
  /\ loads' = loads \cup {mostRecent}
  /\ UNCHANGED <<messages, isProcessing, clientError, sends>>
  /\ UNCHANGED <<regVars, orchVars, execVars, connVars, authVars>>

\* switchSession(sessionId): a session of the list becomes current and
\* loadSessionMessages awaits its history
SwitchSession(sessionId) ==
  /\ sessionId \in IdsOf(sessions)
  /\ sessionId # currentSession
  /\ currentSession' = sessionId
  /\ loads' = loads \cup {sessionId}
  /\ UNCHANGED <<sessions, messages, isProcessing, clientError, sessionsLoading, sends>>
  /\ UNCHANGED <<regVars, orchVars, execVars, connVars, authVars>>

\* getSessionHistory(sessionId) resolves: setMessages(session.messages || [])
LoadResolves(sessionId) ==
  /\ sessionId \in loads
  /\ loads' = loads \ {sessionId}
  /\ messages' = History(sessionId)
  /\ UNCHANGED <<sessions, currentSession, isProcessing, clientError, sessionsLoading, sends>>
  /\ UNCHANGED <<regVars, orchVars, execVars, connVars, authVars>>

\* getSessionHistory(sessionId) rejects: the error is set
LoadFails(sessionId) ==
  /\ sessionId \in loads
  /\ loads' = loads \ {sessionId}
  /\ clientError' = "Failed to load conversation history"
  /\ UNCHANGED <<sessions, currentSession, messages, isProcessing, sessionsLoading, sends>>
  /\ UNCHANGED <<regVars, orchVars, execVars, connVars, authVars>>

\* deleteSession(sessionId): the session leaves the list; when it was the
\* current one the first remaining session is switched to, or there is none
DeleteSession(sessionId) ==
  /\ sessionId \in IdsOf(sessions)
  /\ sessions' = SelectSeq(sessions, LAMBDA s : s # sessionId)
  /\ IF currentSession = sessionId
     THEN IF sessions' # << >>
          THEN /\ currentSession' = sessions'[1]
               /\ loads' = loads \cup {sessions'[1]}
               /\ UNCHANGED messages
          ELSE /\ currentSession' = NoSession
               /\ messages' = << >>
               /\ UNCHANGED loads
     ELSE UNCHANGED <<currentSession, messages, loads>>
  /\ UNCHANGED <<isProcessing, clientError, sessionsLoading, sends>>
  /\ UNCHANGED <<regVars, orchVars, execVars, connVars, authVars>>

\* sendAgentQuery up to its first await, on the state st, with the
\* currentSession of the render the caller closed over and Date.now(): the error is
\* cleared, isProcessing is set, and either createSession is awaited or the
\* two messages are appended and the query is sent
Begin(st, c, closure, dateNow) ==
  IF closure = NoSession
  THEN [st EXCEPT !.isProcessing = TRUE, !.clientError = NoError,
                  !.send = [pc |-> "creating", closure |-> closure, sessionId |-> NoSession,
                            pendingId |-> "<none>"]]
  ELSE [st EXCEPT !.isProcessing = TRUE, !.clientError = NoError,
                  !.messages = WithQuery(st.messages, c, dateNow),
                  !.send = [pc |-> "sending", closure |-> closure, sessionId |-> closure,
                            pendingId |-> PendingMessageId(dateNow)]]

\* startNewSession after createSession resolved with newSession, on the
\* state st
NewSession(st, newSession) ==
  [st EXCEPT !.sessions = <<newSession>> \o st.sessions,
             !.currentSession = newSession,
             !.messages = << >>]

\* the state a step of call c works on
ClientState(c) ==
  [sessions |-> sessions, currentSession |-> currentSession, messages |-> messages,
   isProcessing |-> isProcessing, clientError |-> clientError, send |-> sends[c]]

\* the state st becomes the state of the client
Apply(st, c) ==
  /\ sessions' = st.sessions
  /\ currentSession' = st.currentSession
  /\ messages' = st.messages
  /\ isProcessing' = st.isProcessing
  /\ clientError' = st.clientError
  /\ sends' = [sends EXCEPT ![c] = st.send]

\* the next call is the first that was not made
NextSend(c) == sends[c].pc = "idle" /\ \A d \in Sends : d < c => sends[d].pc # "idle"

\* Chat.handleSubmit: nothing is sent while isProcessing, else sendQuery(input)
HandleSubmit(c, dateNow) ==
  /\ NextSend(c)
  /\ ~isProcessing
  /\ Apply(Begin(ClientState(c), c, currentSession, dateNow), c)
  /\ UNCHANGED <<sessionsLoading, loads>>
  /\ UNCHANGED <<regVars, orchVars, execVars, connVars, authVars>>

\* handleQuickQuery of the dashboard: nothing is sent while isProcessing,
\* else startNewSession() is awaited
HandleQuickQuery(c) ==
  /\ NextSend(c)
  /\ ~isProcessing
  /\ sends' = [sends EXCEPT ![c] = [NoSend EXCEPT !.pc = "quickCreating", !.closure = currentSession]]
  /\ UNCHANGED <<sessions, currentSession, messages, isProcessing, clientError, sessionsLoading,
                 loads>>
  /\ UNCHANGED <<regVars, orchVars, execVars, connVars, authVars>>

\* startNewSession() of handleQuickQuery has resolved: the new session is
\* current and sendQuery(quickQuery) is called
QuickSessionCreated(c, dateNow) ==
  /\ sends[c].pc = "quickCreating"
  /\ Apply(Begin(NewSession(ClientState(c), QuickSessions[c]), c, sends[c].closure, dateNow), c)
  /\ UNCHANGED <<sessionsLoading, loads>>
  /\ UNCHANGED <<regVars, orchVars, execVars, connVars, authVars>>

\* startNewSession() of handleQuickQuery has failed: sendQuery is not called
QuickSessionFails(c) ==
  /\ sends[c].pc = "quickCreating"
  /\ clientError' = "Failed to start new conversation"
  /\ sends' = [sends EXCEPT ![c].pc = "done"]
  /\ UNCHANGED <<sessions, currentSession, messages, isProcessing, sessionsLoading, loads>>
  /\ UNCHANGED <<regVars, orchVars, execVars, connVars, authVars>>

\* sendAgentQuery: startNewSession() has resolved, the two messages are
\* appended and the query is sent for the new session
SessionCreated(c, dateNow) ==
  /\ sends[c].pc = "creating"
  /\ Apply(Begin(NewSession(ClientState(c), NewSessions[c]), c, NewSessions[c], dateNow), c)
  /\ UNCHANGED <<sessionsLoading, loads>>
  /\ UNCHANGED <<regVars, orchVars, execVars, connVars, authVars>>

\* sendQuery resolves: the message with the id of the placeholder becomes
\* the response and isProcessing is reset
QuerySucceeds(c) ==
  /\ sends[c].pc = "sending"
  /\ messages' = WithResponse(messages, sends[c].pendingId, c)
  /\ isProcessing' = FALSE
  /\ sends' = [sends EXCEPT ![c].pc = "done"]
  /\ UNCHANGED <<sessions, currentSession, clientError, sessionsLoading, loads>>
  /\ UNCHANGED <<regVars, orchVars, execVars, connVars, authVars>>

\* startNewSession or sendQuery rejects: the error is set, the pending
\* messages are removed and isProcessing is reset
QueryFails(c) ==
  /\ sends[c].pc \in {"creating", "sending"}
  /\ clientError' = "Failed to process your request"
  /\ messages' = WithoutPending(messages)
  /\ isProcessing' = FALSE
  /\ sends' = [sends EXCEPT ![c].pc = "done"]
  /\ UNCHANGED <<sessions, currentSession, sessionsLoading, loads>>
  /\ UNCHANGED <<regVars, orchVars, execVars, connVars, authVars>>

\* every session there can be
AllSessions == IdsOf(ServerSessions) \cup IdsOf(QuickSessions) \cup IdsOf(NewSessions)

ClientNext ==
  \/ \E s \in IdsOf(ServerSessions) : SessionsLoaded(s)
  \/ \E s \in IdsOf(ServerSessions) : SwitchSession(s)
  \/ \E s \in AllSessions : LoadResolves(s)
  \/ \E s \in AllSessions : LoadFails(s)
  \/ \E s \in IdsOf(ServerSessions) : DeleteSession(s)
  \/ \E c \in Sends : \E dateNow \in DateNow(c) : HandleSubmit(c, dateNow)
  \/ \E c \in Sends : HandleQuickQuery(c)
  \/ \E c \in Sends : \E dateNow \in DateNow(c) : QuickSessionCreated(c, dateNow)
  \/ \E c \in Sends : QuickSessionFails(c)
  \/ \E c \in Sends : \E dateNow \in DateNow(c) : SessionCreated(c, dateNow)
  \/ \E c \in Sends : QuerySucceeds(c)
  \/ \E c \in Sends : QueryFails(c)

(***************************************************************************)
(* The registry as a state machine: one action per public method.         *)
(***************************************************************************)
\* identifiers handed to unregisterTool: ids and names in any letter case
Identifiers == GivenIds \cup {"u1", "Alpha", "alpha", "Beta", "Gamma"}

\* at most this many recordToolUsage calls are counted in all
MaxUses == 2

RECURSIVE SumUses(_, _)
SumUses(stats, ids) ==
  IF ids = {} THEN 0
  ELSE LET id == CHOOSE x \in ids : TRUE
       IN stats[id].successCount + stats[id].failureCount + SumUses(stats, ids \ {id})

\* statistics records as a persisted snapshot may carry them
SavedStats ==
  [successCount |-> 1, failureCount |-> 0, averageExecutionTime |-> ExecTimeMs,
   totalExecutions |-> 1, lastUsed |-> "now"]

\* the snapshots handed to importData, besides the export of the registry itself
ImportChoices ==
  { [tools |-> ts, usageStats |-> us] :
      ts \in { <<>>, <<DefAlpha>>, <<DefAlpha, DefNoId>> },
      us \in { EmptyMap, [id \in {"t1"} |-> SavedStats] } }

Call(op, arg, ret) == [op |-> op, arg |-> arg, ret |-> ret]

\* write a registry value and the call record to the variables
\* at most this many registry calls are made in one run
MaxCalls == 4

Commit(res, op, arg) ==
  /\ calls < MaxCalls
  /\ calls' = calls + 1
  /\ tools' = res.reg.tools
  /\ toolOrder' = res.reg.toolOrder
  /\ categories' = res.reg.categories
  /\ capabilities' = res.reg.capabilities
  /\ metadataIndex' = res.reg.metadataIndex
  /\ usageStats' = res.reg.usageStats
  /\ uuidCount' = uuidCount + res.uuids
  /\ lastCall' = Call(op, arg, res.ret)
  /\ UNCHANGED <<orchVars, execVars, connVars, authVars, clientVars>>

RegInit ==
  /\ tools = EmptyMap
  /\ toolOrder = <<>>
  /\ categories = EmptyMap
  /\ capabilities = {}
  /\ metadataIndex = EmptyIndex
  /\ usageStats = EmptyMap
  /\ uuidCount = 0
  /\ lastCall = Call("new", Absent, Absent)
  /\ calls = 0

RegisterTool ==
  \E def \in ToolDefs :
    /\ def.id = Absent => uuidCount < MaxUuid
    /\ Commit(registerTool(CurrentRegistry, def, uuidCount), "registerTool", def)

UnregisterTool ==
  \E toolIdentifier \in Identifiers :
    Commit(unregisterTool(CurrentRegistry, toolIdentifier), "unregisterTool", toolIdentifier)

RecordToolUsage ==
  \E toolId \in ToolIds, stats \in UsageArgs :
    /\ SumUses(usageStats, DOMAIN usageStats) < MaxUses
    /\ Commit(recordToolUsage(CurrentRegistry, toolId, stats), "recordToolUsage",
              <<toolId, stats>>)

ImportData ==
  \E data \in ImportChoices \cup {exportData(CurrentRegistry)} :
    /\ uuidCount + Cardinality({i \in DOMAIN data.tools : data.tools[i].id = Absent}) <= MaxUuid
    /\ Commit(importData(data, uuidCount), "importData", data)

\* the criteria handed to findTools
FindCriteria ==
  { NoCriteria,
    [NoCriteria EXCEPT !.category = "c1"],
    [NoCriteria EXCEPT !.category = "c3"],
    [NoCriteria EXCEPT !.capability = "Search"],
    [NoCriteria EXCEPT !.keywords = <<"Find">>],
    [NoCriteria EXCEPT !.keywords = <<"find", "nokey">>],
    [NoCriteria EXCEPT !.inputType = "text"],
    [NoCriteria EXCEPT !.category = "c1", !.outputType = "json"] }

\* findTools reads the registry and changes nothing
FindTools ==
  \E criteria \in FindCriteria :
    Commit(Outcome(CurrentRegistry, findTools(CurrentRegistry, criteria), 0),
           "findTools", criteria)

\* getAllCapabilities reads the registry and changes nothing
GetAllCapabilities ==
  Commit(Outcome(CurrentRegistry, getAllCapabilities(CurrentRegistry), 0),
         "getAllCapabilities", Absent)

\* getToolRecommendations reads the registry and changes nothing
GetToolRecommendations ==
  \E query \in Queries :
    Commit(Outcome(CurrentRegistry, getToolRecommendations(CurrentRegistry, query), 0),
           "getToolRecommendations", query)

\* loadFromDirectory reads a directory and registers what it finds
LoadFromDirectory ==
  \E directory \in Directories :
    Commit(loadFromDirectory(CurrentRegistry, directory, uuidCount),
           "loadFromDirectory", directory)

RegNext ==
  \/ RegisterTool
  \/ UnregisterTool
  \/ RecordToolUsage
  \/ ImportData
  \/ FindTools
  \/ GetToolRecommendations
  \/ LoadFromDirectory
  \/ GetAllCapabilities

Init == RegInit /\ OrchInit /\ ExecInit /\ ConnInit /\ AuthInit /\ ClientInit

SpecRegistry == Init /\ [][RegNext]_vars

SpecOrchestrator == Init /\ [][OrchNext]_vars

SpecQuery == Init /\ [][QueryNext]_vars

SpecExecutor == Init /\ [][ExecNext]_vars

SpecConnections == Init /\ [][ConnNext]_vars

SpecAuth == Init /\ [][AuthNext]_vars

SpecClient == Init /\ [][ClientNext]_vars

(***************************************************************************)
(* Claims about the registry.                                              *)
(***************************************************************************)
regState == <<tools, toolOrder, categories, capabilities, metadataIndex, usageStats>>

IndexKeys == {"alpha", "beta", "gamma", "search", "find"}

CategoryNames == {"c1", "c2"}

\* the string entries of an array, lower-cased
FoldedEntries(entries) ==
  {toLowerCase(entries[i]) : i \in {j \in DOMAIN entries : entries[j] # NotAString}}

\* every stored tool carries only string capability and keyword entries
WellFormedTools ==
  \A id \in DOMAIN tools :
    /\ \A i \in DOMAIN tools[id].capabilities : tools[id].capabilities[i] # NotAString
    /\ \A i \in DOMAIN tools[id].keywords : tools[id].keywords[i] # NotAString

InNameIndex(key, id) ==
  key \in DOMAIN metadataIndex.name /\ metadataIndex.name[key] = id

InSetIndex(idx, key, id) == key \in DOMAIN idx /\ id \in idx[key]

\* C3: after any sequence of registerTool, unregisterTool and importData
\* calls, an id is listed under a name, category, capability or keyword
\* index entry if and only if it is a key of the primary map and the tool
\* stored under it has that name, category, capability or keyword (stated
\* for the registries whose tools carry only string entries).
C3_IndicesCoherent ==
  WellFormedTools =>
    \A id \in ToolIds :
      /\ \A key \in IndexKeys :
           /\ InNameIndex(key, id) <=>
                (id \in DOMAIN tools /\ toLowerCase(tools[id].name) = key)
           /\ InSetIndex(metadataIndex.capability, key, id) <=>
                (id \in DOMAIN tools /\ key \in FoldedEntries(tools[id].capabilities))
           /\ InSetIndex(metadataIndex.keyword, key, id) <=>
                (id \in DOMAIN tools /\ key \in FoldedEntries(tools[id].keywords))
      /\ \A c \in CategoryNames :
           InSetIndex(categories, c, id) <=>
             (id \in DOMAIN tools /\ tools[id].category = c)

\* C4: no two registered tools have names that are equal after case-folding,
\* and the name index maps each registered tool's folded name to its own id.
C4_NamesUnique ==
  /\ \A a, b \in DOMAIN tools :
       a # b => toLowerCase(tools[a].name) # toLowerCase(tools[b].name)
  /\ \A id \in DOMAIN tools : InNameIndex(toLowerCase(tools[id].name), id)

\* a required field of the definition is missing
MissingRequired(def) == def.name = Absent \/ ~def.execute

\* the ids of the registered tools that bear the definition's name, in any
\* letter case, under another id
NameHolders(def) ==
  {id \in DOMAIN tools : id # def.id /\ def.name # Absent
                          /\ toLowerCase(tools[id].name) = toLowerCase(def.name)}

\* C5: registerTool returns false when the definition lacks a required field
\* or its name equals, case-insensitively, the name of a registered tool; in
\* the collision case the registered tool stays registered and resolvable by
\* that name.
C5_RejectsInvalidAndCollision ==
  [][ lastCall'.op = "registerTool"
        /\ (MissingRequired(lastCall'.arg) \/ NameHolders(lastCall'.arg) # {})
      => /\ lastCall'.ret = "false"
         /\ \A id \in NameHolders(lastCall'.arg) :
              /\ id \in DOMAIN tools'
              /\ tools'[id] = tools[id]
              /\ toLowerCase(tools[id].name) \in DOMAIN metadataIndex'.name
              /\ metadataIndex'.name[toLowerCase(tools[id].name)] = id ]_vars

\* C6: whenever registerTool returns false, the primary map, the indices and
\* usageStats are exactly what they were before the call.
C6_RegisterAllOrNothing ==
  [][ lastCall'.op = "registerTool" /\ lastCall'.ret = "false"
      => UNCHANGED regState ]_vars

\* C7: for every registered tool successCount + failureCount equals
\* totalExecutions, whatever recordToolUsage calls were made.
C7_CountsAddUp ==
  \A id \in DOMAIN usageStats :
    usageStats[id].successCount + usageStats[id].failureCount
      = usageStats[id].totalExecutions

Uses(stats, id) == stats[id].successCount + stats[id].failureCount

\* C8: while a tool stays registered its successCount + failureCount never
\* decreases, across recordToolUsage, registerTool and importData.
C8_UsesMonotonic ==
  [][ \A id \in (DOMAIN tools \cap DOMAIN tools') \cap (DOMAIN usageStats \cap DOMAIN usageStats') :
        Uses(usageStats', id) >= Uses(usageStats, id) ]_vars

\* the ids listed anywhere in the indices or in usageStats
ListedIds ==
  {metadataIndex.name[k] : k \in DOMAIN metadataIndex.name}
    \cup UNION {categories[c] : c \in DOMAIN categories}
    \cup UNION {metadataIndex.capability[k] : k \in DOMAIN metadataIndex.capability}
    \cup UNION {metadataIndex.keyword[k] : k \in DOMAIN metadataIndex.keyword}
    \cup DOMAIN usageStats

\* the registered tools an identifier denotes: the tool with that id, or
\* the tools with that name in any letter case
Denoted(x) ==
  IF x \in DOMAIN tools THEN {x}
  ELSE {id \in DOMAIN tools : toLowerCase(tools[id].name) = toLowerCase(x)}

\* C18: unregisterTool(x) returns false and changes nothing when x is
\* neither a registered id nor, case-insensitively, a registered name;
\* otherwise it returns true and afterwards the tool's id is absent from the
\* primary map, the name index, its category set, every capability and
\* keyword index entry, and usageStats (stated for the registries whose
\* tools carry only string entries).
C18_UnregisterRemovesEverywhere ==
  [][ (lastCall'.op = "unregisterTool" /\ WellFormedTools)
      => IF Denoted(lastCall'.arg) = {}
         THEN lastCall'.ret = "false" /\ UNCHANGED regState
         ELSE /\ lastCall'.ret = "true"
              /\ \E id \in Denoted(lastCall'.arg) :
                   id \notin DOMAIN tools' \cup ListedIds' ]_vars

\* a tool satisfies every supplied criterion
Satisfies(tool, criteria) ==
  /\ criteria.category # Absent => tool.category = criteria.category
  /\ criteria.capability # Absent
       => toLowerCase(criteria.capability) \in FoldedEntries(tool.capabilities)
  /\ \A i \in DOMAIN criteria.keywords :
       toLowerCase(criteria.keywords[i]) \in FoldedEntries(tool.keywords)
  /\ criteria.inputType # Absent
       => \E i \in DOMAIN tool.inputTypes : tool.inputTypes[i] = criteria.inputType
  /\ criteria.outputType # Absent
       => \E i \in DOMAIN tool.outputTypes : tool.outputTypes[i] = criteria.outputType

\* C19: findTools(criteria) returns exactly the registered tools that
\* satisfy every supplied criterion (category, capability, each listed
\* keyword, inputType, outputType); an absent criterion does not filter, and
\* a supplied criterion that no tool satisfies, a keyword that no
\* registered tool has included, leaves no match.
C19_FindToolsExact ==
  lastCall.op = "findTools"
    => /\ {lastCall.ret[i] : i \in DOMAIN lastCall.ret}
            = {id \in DOMAIN tools : Satisfies(tools[id], lastCall.arg)}
       /\ \A i, j \in DOMAIN lastCall.ret : i # j => lastCall.ret[i] # lastCall.ret[j]

\* C20: in every reachable registry state findTools({}) returns exactly as
\* many tools as the registry holds (its size), each registered tool once.
C20_FindAllReturnsSize ==
  LET found == findTools(CurrentRegistry, NoCriteria)
  IN /\ Len(found) = Cardinality(DOMAIN tools)
     /\ \A id \in DOMAIN tools :
          Cardinality({i \in DOMAIN found : found[i] = id}) = 1

\* findTools({}) was called on a registry of two tools, whose names collide,
\* and returned both
C20_Witness ==
  /\ lastCall.op = "findTools"
  /\ lastCall.arg = NoCriteria
  /\ Len(lastCall.ret) = 2
  /\ Cardinality(DOMAIN tools) = 2
  /\ Cardinality(DOMAIN metadataIndex.name) = 1

(***************************************************************************)
(* Claims about the orchestrator.                                          *)
(***************************************************************************)
\* the positions between getOrCreateContext and the end of execution
Working == {"analyzing", "planning", "executing"}

\* C1: at most one processQuery call per sessionId is in progress: a second
\* query of a session does not begin analysis, planning or execution before
\* the first has returned.
C1_OneQueryPerSession ==
  \A p, q \in Sockets :
    (p # q /\ InProgress(p) /\ queries[q].pc \in Working)
      => queries[p].sessionId # queries[q].sessionId

\* C2: every caller of getOrCreateContext for a sessionId holds the same
\* Context object, the one stored in activeContexts under that sessionId.
C2_OneContextPerSession ==
  \A q \in Sockets :
    queries[q].context # NoContext =>
      /\ queries[q].sessionId \in DOMAIN activeContexts
      /\ activeContexts[queries[q].sessionId] = queries[q].context

\* the roles of a turn history alternate user, assistant, ... from user
Alternates(history) ==
  \A i \in DOMAIN history :
    history[i].role = IF i % 2 = 1 THEN "user" ELSE "assistant"

C10_AppendUpdatesLastUpdated ==
  [][ \A c \in DOMAIN contexts :
        Len(contexts'[c].conversationHistory) > Len(contexts[c].conversationHistory)
          => contexts'[c].lastUpdated >= now ]_vars

\* C11: cleanupIdleContexts(maxAge) removes from activeContexts exactly the
\* sessions with now - lastUpdated > maxAge, leaves every other session in
\* place and returns the number of sessions it removed.  (The steps of
\* the orchestrator that leave the queries and the clock alone are the
\* cleanupIdleContexts calls.)
C11_CleanupExact ==
  [][ (queries' = queries /\ now' = now)
      => LET expired == {s \in DOMAIN activeContexts :
                           now - contexts[activeContexts[s]].lastUpdated > MaxAgeMs}
         IN /\ DOMAIN activeContexts' = DOMAIN activeContexts \ expired
            /\ \A s \in DOMAIN activeContexts' : activeContexts'[s] = activeContexts[s]
            /\ cleanedCount' = Cardinality(expired) ]_orchVars

\* a cleanup removed one session and left the other in place
C11_Witness ==
  /\ cleanedCount = 1
  /\ DOMAIN activeContexts = {"s2"}
  /\ now - contexts[activeContexts["s2"]].lastUpdated <= MaxAgeMs

\* C12: getOrCreateContext follows the order memory, persistence, fresh.  A
\* session that is in activeContexts is returned without consulting
\* persistence; otherwise, when retrieveSession yields a session, that one is
\* stored in activeContexts and returned; otherwise (nothing saved, or the
\* retrieval threw) a fresh Context is created, stored and returned; a
\* failing retrieval never makes the call throw.
C12_MemoryPersistenceFresh ==
  [][ \A q \in Sockets :
        LET sid == queries'[q].sessionId
            c   == queries'[q].context
        IN /\ (queries[q].pc \in {"idle", "done"} /\ queries'[q].pc \notin {"idle", "done"})
                => IF sid \in DOMAIN activeContexts
                   THEN /\ queries'[q].pc = "analyzing"
                        /\ c = activeContexts[sid]
                        /\ queries'[q].savedSession = Absent
                        /\ activeContexts' = activeContexts
                   ELSE queries'[q].pc = "retrieving"
           /\ (queries[q].pc = "retrieving" /\ queries'[q].pc # "retrieving")
                => /\ queries'[q].pc = "analyzing"
                   /\ c \notin DOMAIN contexts
                   /\ sid \in DOMAIN activeContexts' /\ activeContexts'[sid] = c
                   /\ queries'[q].savedSession \in {"session", "null", "threw"}
                   /\ queries'[q].savedSession = "session"
                        => sid \in DOMAIN persisted /\ contexts'[c] = persisted[sid]
                   /\ queries'[q].savedSession \in {"null", "threw"}
                        => contexts'[c] = [sessionId |-> sid, conversationHistory |-> <<>>,
                                           lastUpdated |-> now] ]_vars

\* a query was handed a fresh Context because the retrieval threw, although
\* persistence holds a session with a history under its sessionId
C12_Witness ==
  \E q \in Sockets :
    /\ queries[q].pc = "analyzing"
    /\ queries[q].savedSession = "threw"
    /\ queries[q].sessionId \in DOMAIN persisted
    /\ Len(persisted[queries[q].sessionId].conversationHistory) = 2
    /\ contexts[queries[q].context].conversationHistory = <<>>

\* C13: a failure of storeSession at the end of a query is not propagated:
\* when storeSession throws after analysis, planning, execution and synthesis
\* succeeded, processQuery still returns the synthesized response, without
\* the error flag.
C13_StoreFailureNotPropagated ==
  [][ \A q \in Sockets :
        (queries[q].error = "storage" /\ queries'[q].pc = "done")
          => /\ queries'[q].result = "response"
             /\ queries'[q].resultText = "response.text" ]_vars

\* C14: when the analysis collaborator fails, processQuery does not abort:
\* it goes on with the trivial intent "unknown" and calls the planner.
C14_AnalysisFailureContinues ==
  [][ \A q \in Sockets :
        (queries[q].pc = "analyzing" /\ queries'[q].error = "analysis")
          => /\ queries'[q].pc = "planning"
             /\ queries'[q].intent = "unknown" ]_vars

\* the deterministic concatenation of the tool outputs
Concatenation(outputs) == IF outputs = <<"o1">> THEN "o1" ELSE ""

\* C15: when synthesis fails after the execution produced outputs,
\* processQuery returns a response whose text is the concatenation of the
\* tool outputs; the outputs are never discarded because synthesis threw.
C15_SynthesisFallbackKeepsOutputs ==
  [][ \A q \in Sockets :
        (queries[q].error = "synthesis" /\ queries[q].outputs # <<>>
           /\ queries'[q].pc = "done")
          => queries'[q].resultText = Concatenation(queries[q].outputs) ]_vars

\* C16: a query with an empty text is rejected with an error and no plan is
\* constructed: generateToolPlan and executeToolChain are never called for
\* it.
C16_EmptyTextRejected ==
  \A q \in Sockets :
    queries[q].text = EmptyText
      => /\ queries[q].pc \notin {"planning", "executing"}
         /\ queries[q].pc = "done" => queries[q].result = "error"

\* the status frames in the order of the phases
StatusOrder ==
  <<"status:analyzing", "status:planning", "status:executing", "status:synthesizing">>

IsStatus(frame) == \E i \in DOMAIN StatusOrder : frame = StatusOrder[i]

IsTerminal(frame) == frame \in {"response", "error"}

Emitted(q, frame) == \E i \in DOMAIN frames[q] : frames[q][i] = frame

\* the positions at which the work of a phase is going on, and those at
\* which it has finished without an error
PhaseAt == <<"analyzing", "planning", "executing", "synthesizing">>

PhasesBefore(pc) ==
  CASE pc = "planning"     -> 1
    [] pc = "executing"    -> 2
    [] pc = "synthesizing" -> 3
    [] pc = "storing"      -> 4
    [] OTHER               -> 0

\* the frames of one query are well ordered so far
FramesInOrder(q) ==
  LET f        == frames[q]
      statuses == SelectSeq(f, IsStatus)
  IN \* the status frames come in the order of the phases, each once
     /\ Len(statuses) <= Len(StatusOrder)
     /\ \A i \in DOMAIN statuses : statuses[i] = StatusOrder[i]
     \* the status frame of every finished phase was emitted
     /\ \A k \in 1..PhasesBefore(queries[q].pc) : Emitted(q, StatusOrder[k])
     /\ (queries[q].pc = "done" /\ queries[q].result = "response")
          => \A k \in DOMAIN StatusOrder : Emitted(q, StatusOrder[k])
     \* progress frames come after the planning status
     /\ \A i \in DOMAIN f :
          f[i] = "progress" => \E j \in 1..(i - 1) : f[j] = "status:planning"
     \* one terminal frame, the last one, once processQuery has returned
     /\ \A i \in DOMAIN f : IsTerminal(f[i]) => i = Len(f) /\ queries[q].pc = "done"
     /\ queries[q].pc = "done" => f # <<>> /\ IsTerminal(f[Len(f)])

\* the frames are emitted in time
FramesInTime(q) ==
  \* the status frame of a phase is out before the work of the phase ends
  /\ \A k \in DOMAIN PhaseAt :
       (queries[q].pc = PhaseAt[k] /\ queries'[q].pc # PhaseAt[k])
         => Emitted(q, StatusOrder[k])
  \* progress frames are emitted before the end of the execution
  /\ (Len(frames'[q]) > Len(frames[q]) /\ frames'[q][Len(frames'[q])] = "progress")
       => queries[q].pc = "executing"
  \* nothing follows the terminal frame
  /\ (frames[q] # <<>> /\ IsTerminal(frames[q][Len(frames[q])]))
       => frames'[q] = frames[q] \/ queries'[q].pc \notin {"idle", "done"}

\* C17: for each agent:query the server emits the status frames of the
\* phases analyzing, planning, executing, synthesizing in that order, each
\* before the work of its phase has finished, progress frames only between
\* the planning status and the end of the execution, and then exactly one
\* terminal frame (agent:response or agent:error), after which no frame of
\* that query is emitted.
C17_FrameOrder ==
  /\ [](\A q \in Sockets : FramesInOrder(q))
  /\ [][\A q \in Sockets : FramesInTime(q)]_vars

(***************************************************************************)
(* Recommendations                                                         *)
(***************************************************************************)
\* the positions of a sequence hold different values
Distinct(seq) == \A i, j \in DOMAIN seq : i # j => seq[i] # seq[j]

\* the query includes a keyword, the name or the description of the tool
MatchesQuery(tool, query) ==
  \/ \E i \in DOMAIN tool.keywords :
        includes(toLowerCase(query), toLowerCase(tool.keywords[i]))
  \/ includes(toLowerCase(query), toLowerCase(tool.name))
  \/ tool.description # Absent
       /\ includes(toLowerCase(query), toLowerCase(tool.description))

SuccessRate(id) ==
  IF id \in DOMAIN usageStats
     /\ usageStats[id].successCount + usageStats[id].failureCount > 0
  THEN Fraction(usageStats[id].successCount,
                usageStats[id].successCount + usageStats[id].failureCount)
  ELSE Fraction(0, 1)

\* the names that every string order ranks the same way
NameRank(name) ==
  CASE name = "Alpha" -> 1 [] name = "Beta" -> 2 [] name = "Gamma" -> 3 [] OTHER -> 0

\* name x comes after name y in lexicographic order
NameAfter(x, y) == NameRank(x) > 0 /\ NameRank(y) > 0 /\ NameRank(x) > NameRank(y)

\* C22: of two returned tools with equal scores the one with the higher
\* success rate comes first, and with equal success rates the one with the
\* lexicographically smaller name, whatever the order of registration
C22_TiesByRateThenName ==
  lastCall.op = "getToolRecommendations" =>
    LET ret   == lastCall.ret
        query == lastCall.arg
        r     == CurrentRegistry
    IN \A i, j \in DOMAIN ret :
         (i < j /\ Same(Score(r, ret[i], query), Score(r, ret[j], query))) =>
           /\ ~Less(SuccessRate(ret[i]), SuccessRate(ret[j]))
           /\ Same(SuccessRate(ret[i]), SuccessRate(ret[j]))
                => ~NameAfter(tools[ret[i]].name, tools[ret[j]].name)

\* the 3-grams of a description
Trigrams(description) ==
  CASE description = "finder" -> {"fin", "ind", "nde", "der"}
    [] OTHER                  -> {}

\* the keywords of a tool that are case-folded substrings of the query
RECURSIVE KeywordHits(_, _, _)
KeywordHits(tool, query, i) ==
  IF i > Len(tool.keywords) THEN 0
  ELSE (IF includes(toLowerCase(query), toLowerCase(tool.keywords[i])) THEN 1 ELSE 0)
         + KeywordHits(tool, query, i + 1)

\* (10 per keyword + 5 for the name + 3 for a 3-gram of the description)
\* * (0.5 + 0.5 * successes / max(1, successes + failures))
StatedScore(id, query) ==
  LET tool == tools[id]
      base == 10 * KeywordHits(tool, query, 1)
                + (IF includes(toLowerCase(query), toLowerCase(tool.name)) THEN 5 ELSE 0)
                + (IF tool.description # Absent
                      /\ \E g \in Trigrams(toLowerCase(tool.description)) :
                           includes(toLowerCase(query), g)
                   THEN 3 ELSE 0)
      rate == SuccessRate(id)
  IN Fraction(base * (rate.den + rate.num), 2 * rate.den)

\* C23: the score getToolRecommendations gives a tool is (10 per keyword in
\* the query + 5 for the name + 3 for a 3-gram of the description) times
\* (0.5 + 0.5 * successes / max(1, successes + failures)), for every usage
\* history, a tool without recorded usage included
C23_ScoreFormula ==
  lastCall.op = "getToolRecommendations" =>
    \A id \in DOMAIN tools :
      Same(Score(CurrentRegistry, id, lastCall.arg), StatedScore(id, lastCall.arg))

(***************************************************************************)
(* Persistence of the registry                                             *)
(***************************************************************************)
\* C24: importData(exportData(r)) yields a registry with the tool ids of r,
\* the name, category, capability and keyword indices of r and the usage
\* statistics of r for every tool, and returns the number of tools of r
C24_ExportImportRoundTrip ==
  [][(lastCall'.op = "importData" /\ lastCall'.arg = exportData(CurrentRegistry)) =>
       /\ DOMAIN tools' = DOMAIN tools
       /\ metadataIndex' = metadataIndex
       /\ categories' = categories
       /\ capabilities' = capabilities
       /\ usageStats' = usageStats
       /\ lastCall'.ret = Cardinality(DOMAIN tools)]_regVars

\* the files of a directory that hold a definition registerTool accepts
Registrable(files) ==
  {i \in DOMAIN files :
     /\ files[i].ext \in {"js", "json"}
     /\ files[i].loads
     /\ validateToolDefinition(files[i].def)
     /\ \A k \in DOMAIN files[i].def.capabilities :
          files[i].def.capabilities[k] # NotAString}

\* C25: loadFromDirectory skips the entries that cannot be read, parsed or
\* registered and goes on with the rest; the number it returns is the number
\* of definitions whose registration succeeded, and that is the number of
\* tools the call added to the registry
C25_LoadCountsAddedTools ==
  [][(lastCall'.op = "loadFromDirectory" /\ lastCall'.arg.listable) =>
       /\ \A i \in Registrable(lastCall'.arg.files) :
            lastCall'.arg.files[i].def.id \in DOMAIN tools'
       /\ lastCall'.ret = Cardinality(Registrable(lastCall'.arg.files))
       /\ lastCall'.ret = Cardinality(DOMAIN tools' \ DOMAIN tools)]_regVars

(***************************************************************************)
(* The turn history and the outcome of a query                             *)
(***************************************************************************)
\* C26: when planning begins for a query (generateToolPlan is invoked), the
\* last entry of the session's turn history is the user turn of that query
C26_UserTurnBeforePlanning ==
  \A q \in Sockets :
    queries[q].pc = "planning" =>
      /\ ContextOf(q).conversationHistory # <<>>
      /\ ContextOf(q).conversationHistory[Len(ContextOf(q).conversationHistory)].role = "user"

\* C28: a processQuery call that returns an error result leaves the
\* conversationHistory of its Context as it was before the call: a call that
\* has pushed its two turns goes on to return a non-error result, and the
\* steps into the catch block and out of it push nothing
C28_ErrorLeavesHistory ==
  [][\A q \in Sockets :
       /\ queries[q].pc = "storing" => queries'[q].pc # "handlingError"
       /\ (queries[q].pc # "handlingError" /\ queries'[q].pc = "handlingError")
            => contexts'[queries[q].context] = contexts[queries[q].context]
       /\ (queries[q].pc = "handlingError" /\ queries'[q].result = "error")
            => \A s \in DOMAIN activeContexts :
                 contexts'[activeContexts[s]] = contexts[activeContexts[s]]]_orchVars

\* C29: processQuery never rejects: for every query object and every failure
\* of a collaborator the call resolves to a result that carries the sessionId
\* of the request, and the socket handler answers with agent:response, never
\* with agent:error
C29_NeverRejects ==
  \A q \in Sockets :
    /\ queries[q].pc = "done" =>
         /\ queries[q].result \in {"response", "error"}
         /\ queries[q].sessionId \in SessionIds
         /\ frames[q] # <<>>
         /\ frames[q][Len(frames[q])] = "response"
    /\ \A i \in DOMAIN frames[q] : frames[q][i] # "error"

\* C30: cleanupIdleContexts never removes from activeContexts the Context of
\* a session for which a processQuery call is in progress, between its
\* getOrCreateContext and its return
C30_CleanupSparesWorkingSessions ==
  [][\A s \in DOMAIN activeContexts \ DOMAIN activeContexts' :
       \A q \in Sockets :
         ~(InProgress(q) /\ queries[q].pc # "retrieving" /\ queries[q].sessionId = s)]_orchVars

(***************************************************************************)
(* Execution of a plan                                                     *)
(***************************************************************************)
\* a step that has started: it runs, or it ended by itself
Started(s) == outcomes[s] \in {"Running", "Succeeded", "Failed", "TimedOut"}

\* C27: within one plan executed by the orchestrator no step starts before
\* every step it declares as a dependency is in state Succeeded
C27_DependenciesSucceededFirst ==
  /\ [](\A s \in DOMAIN plan : Started(s) => \A d \in plan[s] : outcomes[d] = "Succeeded")
  /\ [][\A s \in DOMAIN plan \cap DOMAIN plan' :
          (plan' = plan /\ outcomes[s] = "Pending" /\ outcomes'[s] = "Running")
            => \A d \in plan[s] : outcomes[d] = "Succeeded"]_execVars

\* a step with two dependencies runs, after a step was tried again
C27_Witness ==
  /\ \E s \in DOMAIN plan : Cardinality(plan[s]) = 2 /\ outcomes[s] = "Running"
  /\ \E s \in DOMAIN plan : attempts[s] > 0

(***************************************************************************)
(* Statistics records and the capability list                              *)
(***************************************************************************)
\* C31: after any sequence of registerTool, unregisterTool and importData
\* calls the key set of usageStats is the key set of the primary tool map,
\* so recordToolUsage returns false exactly for the ids that are not
\* registered
C31_StatsKeysAreToolKeys ==
  /\ DOMAIN usageStats = DOMAIN tools
  /\ lastCall.op = "recordToolUsage" =>
       (lastCall.ret = "false" <=> lastCall.arg[1] \notin DOMAIN tools)

\* the capabilities declared by at least one registered tool
DeclaredCapabilities ==
  UNION {{tools[id].capabilities[i] : i \in DOMAIN tools[id].capabilities} : id \in DOMAIN tools}

\* C32: after any sequence of registerTool and unregisterTool calls
\* getAllCapabilities returns exactly the capabilities declared by at least
\* one registered tool; a capability whose last tool was unregistered is no
\* longer listed
C32_CapabilitiesOfRegisteredTools ==
  lastCall.op = "getAllCapabilities" => lastCall.ret = DeclaredCapabilities

(***************************************************************************)
(* Claims about the database connections.                                  *)
(***************************************************************************)
\* C33: whenever MongoDB is among the connections to establish and
\* MONGODB_REQUIRED is not set, a MongoDB connection that ultimately fails
\* makes connectDatabases throw, whatever other databases are configured and
\* marked required
C33_MongoDBRequiredByDefault ==
  ( /\ startup.pc \in {"resolved", "rejected"}
    /\ "mongodb" \in env.configured
    /\ "mongodb" \notin env.required
    /\ startup.results["mongodb"] = "rejected" )
  => startup.pc = "rejected"

\* C34: an invocation of a connect function that gives up has made exactly
\* maxRetries + 1 attempts, also when an earlier invocation had already
\* exhausted its retries
C34_AttemptsBeforeGivingUp ==
  \A db \in Databases :
    (connectCalls[db].pc \in {"null", "rejected"} /\ connectAttempts[db] > 0)
    => connectAttempts[db] = maxRetries + 1

\* C35: once closeDatabases has resolved, every connection it closed keeps
\* the status 'disconnected' and no connect function is running for it
C35_ClosedStaysDisconnected ==
  shutdown.pc = "resolved" =>
    \A db \in shutdown.closed :
      /\ connectionStatus[db] = "disconnected"
      /\ connectCalls[db].pc \in Settled

(***************************************************************************)
(* Claims about API key authentication.                                    *)
(***************************************************************************)
\* the key would pass validateApiKey now: it exists, has not expired, and
\* its user exists and is not disabled
WouldPass(key) ==
  /\ key \in ApiKeys
  /\ apiKeyDocs[key] # NoDoc
  /\ ~(apiKeyDocs[key].expiresAt # NoExpiry /\ apiKeyDocs[key].expiresAt < authNow)
  /\ userDocs[apiKeyDocs[key].userId] = "active"

\* C36: with authentication enabled, a request the middleware admits as soon
\* as it arrives carries a key that would pass validation at that time, and a
\* request admitted after validation has a user that is not disabled: a key
\* deleted or whose user was disabled after an earlier successful request is
\* not admitted
C36_AdmitsOnlyValidKeys ==
  [][ /\ ( /\ requests' # requests
           /\ ~request'.disableAuth
           /\ request'.pc = "done"
           /\ request'.response = "next" )
         => WouldPass(request'.key)
      /\ ( /\ request.pc = "findingUser"
           /\ request'.response = "next" )
         => userDocs[request.doc.userId] = "active" ]_authVars

(***************************************************************************)
(* Claims about the client's agent state.                                  *)
(***************************************************************************)
\* no sendQuery call was made
NothingSent == \A c \in Sends : sends[c].pc = "idle"

\* C37: once every pending history load has resolved (none failed and no
\* query was sent), the displayed messages are messages of currentSession:
\* whatever the order in which the loads of a sequence of switchSession calls
\* complete, no message of another session is displayed
C37_MessagesOfCurrentSession ==
  (loads = {} /\ clientError = NoError /\ NothingSent)
  => \A i \in DOMAIN messages :
       /\ currentSession # NoSession
       /\ \E j \in DOMAIN History(currentSession) : messages[i] = History(currentSession)[j]

\* a sendAgentQuery call is in flight
QueryInFlight(c) == sends[c].pc \in {"creating", "sending"}

\* the placeholder of call c is displayed
Placeholder(list, c) ==
  \E i \in DOMAIN list : list[i].pending /\ list[i].id = sends[c].pendingId

\* C38: isProcessing is true exactly while a sendAgentQuery call is in
\* flight; a pending message is displayed only while the call that created
\* it is in flight; and when a call settles, the user's messages are kept and
\* the placeholder of every other call in flight stays displayed
C38_ProcessingWhileInFlight ==
  /\ [](isProcessing <=> \E c \in Sends : QueryInFlight(c))
  /\ [](\A i \in DOMAIN messages :
          messages[i].pending =>
            \E c \in Sends : sends[c].pc = "sending" /\ sends[c].pendingId = messages[i].id)
  /\ [][\A c \in Sends :
          (sends[c].pc = "sending" /\ sends'[c].pc = "done") =>
            /\ \A i \in DOMAIN messages :
                 messages[i].role = "user" => \E j \in DOMAIN messages' : messages'[j] = messages[i]
            /\ \A d \in Sends \ {c} :
                 (sends[d].pc = "sending" /\ sends[d].pendingId # sends[c].pendingId
                    /\ Placeholder(messages, d))
                 => Placeholder(messages', d)]_clientVars

====
